---- MODULE Spec2Model ----
(***************************************************************************)
(* Smart Travel Scout: the safety layer (src/lib/safety.ts), the catalog   *)
(* layer (src/lib/inventory.ts), the validation schemas                    *)
(* (src/lib/validation.ts) and the recommendation engine client            *)
(* (getRecommendations, src/lib/test-inventory.ts).                        *)
(*                                                                         *)
(* Text is a sequence of one-character strings, so that the regular        *)
(* expressions of the code act on characters as they do in the program.    *)
(***************************************************************************)
EXTENDS Integers, Sequences, FiniteSets, TLC

VARIABLES
    pc,             \* position of the operation under way
    call,           \* the arguments of the function being applied
    ret,            \* what it returned or threw (NoValue before it ends)
    env,            \* process.env: GEMINI_API_KEY
    clients,        \* number of GoogleGenerativeAI clients created
    sent,           \* the user messages sent to the AI service, in order
    outcome,        \* what the pending AI call settled with
    page,           \* the state of the Home page component (its useState cells)
    requests,       \* the POSTs issued by handleSearch, in order of issue
    timer           \* the debounced function: clock, pending timeout, invocations

vars == <<pc, call, ret, env, clients, sent, outcome, page, requests, timer>>

(***************************************************************************)
(* Text helpers                                                            *)
(***************************************************************************)

\* a TLA+ string as a sequence of its characters
Chars(s) == [i \in 1..Len(s) |-> SubSeq(s, i, i)]

\* the text a, b, ... concatenated
RECURSIVE Concat(_)
Concat(ss) == IF ss = <<>> THEN <<>> ELSE Head(ss) \o Concat(Tail(ss))

UpperChars == Chars("ABCDEFGHIJKLMNOPQRSTUVWXYZ")
LowerChars == Chars("abcdefghijklmnopqrstuvwxyz")

\* canonical form of a character under the regular expression flag i
Lower(c) ==
    IF \E i \in 1..Len(UpperChars) : UpperChars[i] = c
    THEN LowerChars[CHOOSE i \in 1..Len(UpperChars) : UpperChars[i] = c]
    ELSE c

\* the characters of the class [\x00-\x1F\x7F] that texts of the model contain
ControlChars == {"\t", "\n", "\r", "\f"}

\* the characters of the class \s that texts of the model contain
WhitespaceChars == {" ", "\t", "\n", "\r", "\f"}

\* number of whitespace characters of s starting at position i
RECURSIVE WsRun(_, _)
WsRun(s, i) ==
    IF i <= Len(s) /\ s[i] \in WhitespaceChars THEN 1 + WsRun(s, i + 1) ELSE 0

\* String.prototype.trim
RECURSIVE TrimLeft(_)
TrimLeft(s) ==
    IF s # <<>> /\ Head(s) \in WhitespaceChars THEN TrimLeft(Tail(s)) ELSE s

RECURSIVE TrimRight(_)
TrimRight(s) ==
    IF s # <<>> /\ s[Len(s)] \in WhitespaceChars
    THEN TrimRight(SubSeq(s, 1, Len(s) - 1))
    ELSE s

Trim(s) == TrimRight(TrimLeft(s))

(***************************************************************************)
(* Regular expressions.  A pattern is a sequence of elements: a one        *)
(* character string is that literal character, "\\s+" is a run of one or   *)
(* more whitespace characters, "\\s*" a run of zero or more and "\\n?" an  *)
(* optional line feed.  In the patterns of the code a run is always        *)
(* followed by a literal that is not whitespace, so the greedy run never   *)
(* has to give characters back.  ic is the flag i (ignore case).           *)
(***************************************************************************)

NoMatch == 0 - 1

\* the pattern elements that are not literal characters
Quantified == {"\\s+", "\\s*", "\\n?"}

\* number of literal characters of pat from element k up to the next
\* quantified element
Literals(pat, k) ==
    Cardinality({j \in k..Len(pat) : \A m \in k..j : pat[m] \notin Quantified})

\* position after the match of pat[k..] that starts at s[i], or NoMatch; a run
\* of literal characters is compared in one step
RECURSIVE MatchFrom(_, _, _, _, _)
MatchFrom(pat, ic, k, s, i) ==
    IF k > Len(pat) THEN i
    ELSE IF pat[k] = "\\s+"
         THEN IF WsRun(s, i) >= 1
              THEN MatchFrom(pat, ic, k + 1, s, i + WsRun(s, i))
              ELSE NoMatch
    ELSE IF pat[k] = "\\s*"
         THEN MatchFrom(pat, ic, k + 1, s, i + WsRun(s, i))
    ELSE IF pat[k] = "\\n?"
         THEN MatchFrom(pat, ic, k + 1, s, IF i <= Len(s) /\ s[i] = "\n" THEN i + 1 ELSE i)
    ELSE LET n == Literals(pat, k)
         IN  IF /\ i + n - 1 <= Len(s)
                /\ \A j \in 0..(n - 1) :
                      IF ic THEN Lower(s[i + j]) = Lower(pat[k + j]) ELSE s[i + j] = pat[k + j]
             THEN MatchFrom(pat, ic, k + n, s, i + n)
             ELSE NoMatch

\* the matches of /pat/g in s from position from on: found left to right,
\* each search resuming where the match before it ended, so they never overlap
RECURSIVE MatchesFrom(_, _, _, _)
MatchesFrom(pat, ic, s, from) ==
    LET starts == {i \in from..Len(s) : MatchFrom(pat, ic, 1, s, i) # NoMatch}
        first == CHOOSE i \in starts : \A j \in starts : i <= j
    IN  IF starts = {} THEN {}
        ELSE {[start |-> first, end |-> MatchFrom(pat, ic, 1, s, first)]}
                \cup MatchesFrom(pat, ic, s, MatchFrom(pat, ic, 1, s, first))

\* the characters of s at the positions where keep is TRUE, in order
Keep(s, keep) ==
    LET marked == SelectSeq([i \in 1..Len(s) |-> <<s[i], keep[i]>>], LAMBDA m : m[2])
    IN  SubSeq([j \in 1..Len(marked) |-> marked[j][1]], 1, Len(marked))

\* s.replace(/pat/g, ''): the matches are taken out in ONE pass over s; text
\* that a removal brings together is not searched again
RemoveAll(pat, ic, s) ==
    LET matches == MatchesFrom(pat, ic, s, 1)
    IN  Keep(s, [i \in 1..Len(s) |-> \A m \in matches : i < m.start \/ i >= m.end])

\* s contains a match of pat
Contains(pat, ic, s) == \E i \in 1..Len(s) : MatchFrom(pat, ic, 1, s, i) # NoMatch

\* String.prototype.includes
StrIncludes(s, sub) == sub = <<>> \/ Contains(sub, FALSE, s)

(***************************************************************************)
(* sanitizeUserInput                                                       *)
(***************************************************************************)

\* .replace(/[\x00-\x1F\x7F]/g, '')
RemoveControlChars(s) == SelectSeq(s, LAMBDA c : c \notin ControlChars)

\* .replace(/\s+/g, ' '): the first character of every whitespace run becomes
\* a space and the rest of the run goes
CollapseWhitespace(s) ==
    LET spaced == [i \in 1..Len(s) |-> IF s[i] \in WhitespaceChars THEN " " ELSE s[i]]
    IN  Keep(spaced, [i \in 1..Len(s) |-> \/ s[i] \notin WhitespaceChars
                                          \/ i = 1
                                          \/ s[i - 1] \notin WhitespaceChars])

\* the length sanitizeUserInput truncates to
MaxSanitizedLength == 200

TruncateSanitized(s) ==
    IF Len(s) > MaxSanitizedLength THEN SubSeq(s, 1, MaxSanitizedLength) ELSE s

dangerousPatterns ==
    << Concat(<<Chars("ignore"), <<"\\s+">>, Chars("previous"), <<"\\s+">>,
                Chars("instructions")>>),
       Concat(<<Chars("system"), <<"\\s*">>, Chars(":")>>),
       Concat(<<Chars("you"), <<"\\s+">>, Chars("are"), <<"\\s+">>, Chars("now")>>),
       Concat(<<Chars("disregard"), <<"\\s+">>, Chars("all")>>) >>

\* dangerousPatterns.forEach(pattern => sanitized = sanitized.replace(pattern, ''))
RECURSIVE RemovePatterns(_, _, _)
RemovePatterns(pats, k, s) ==
    IF k > Len(pats) THEN s
    ELSE RemovePatterns(pats, k + 1, RemoveAll(pats[k], TRUE, s))

sanitizeUserInput(s) ==
    RemovePatterns(dangerousPatterns, 1,
        TruncateSanitized(Trim(CollapseWhitespace(RemoveControlChars(s)))))

(***************************************************************************)
(* JSON values, as JSON.parse and the bundled inventory.json give them.    *)
(* A number is the fraction n/d (d > 0); an object lists its keys in       *)
(* document order.  Undefined is what reading a missing property gives.    *)
(***************************************************************************)

JNull == [t |-> "null"]
JBool(b) == [t |-> "boolean", b |-> b]
JNum(n, d) == [t |-> "number", n |-> n, d |-> d]
JInt(n) == JNum(n, 1)
JStr(s) == [t |-> "string", s |-> s]
JArr(a) == [t |-> "array", a |-> a]
JObj(keys, vals) == [t |-> "object", k |-> keys, v |-> vals]
Undefined == [t |-> "undefined"]

\* obj[key]: the last member of that name, Undefined when there is none
Get(obj, key) ==
    LET at == {i \in 1..Len(obj.k) : obj.k[i] = key}
    IN  IF at = {} THEN Undefined
        ELSE obj.v[CHOOSE i \in at : \A j \in at : j <= i]

\* optional arguments and properties of typed values
None == <<>>
Some(x) == <<x>>

(***************************************************************************)
(* zod checks                                                              *)
(***************************************************************************)

zNumber(v) == v.t = "number"
zInt(v) == zNumber(v) /\ v.n % v.d = 0
zPositive(v) == zNumber(v) /\ v.n > 0
zNonNegative(v) == zNumber(v) /\ v.n >= 0
zString(v) == v.t = "string"
zStringArray(v) == v.t = "array" /\ \A i \in 1..Len(v.a) : zString(v.a[i])

\* the JavaScript number of an integer-valued JSON number
NumberOf(v) == v.n \div v.d

\* the JavaScript string[] of an array of JSON strings
StringsOf(v) == [i \in 1..Len(v.a) |-> v.a[i].s]

(***************************************************************************)
(* JSON.parse on texts: objects, arrays, strings with the escapes          *)
(* \" \\ \/ \n \t \r \f, numbers without exponent, true, false, null.      *)
(* A parse gives [ok, v, i]: the value and the position after it.          *)
(***************************************************************************)

JsonWhitespace == {" ", "\t", "\n", "\r"}
Digits == Chars("0123456789")
IsDigit(c) == \E d \in 1..Len(Digits) : Digits[d] = c
DigitValue(c) == (CHOOSE d \in 1..Len(Digits) : Digits[d] = c) - 1

SyntaxError == [ok |-> FALSE]
Parsed(v, i) == [ok |-> TRUE, v |-> v, i |-> i]

RECURSIVE SkipWs(_, _)
SkipWs(s, i) == IF i <= Len(s) /\ s[i] \in JsonWhitespace THEN SkipWs(s, i + 1) ELSE i

RECURSIVE Pow10(_)
Pow10(k) == IF k = 0 THEN 1 ELSE 10 * Pow10(k - 1)

\* the digits starting at s[i]: their value and how many they are
RECURSIVE ParseDigits(_, _, _, _)
ParseDigits(s, i, acc, count) ==
    IF i <= Len(s) /\ IsDigit(s[i])
    THEN ParseDigits(s, i + 1, acc * 10 + DigitValue(s[i]), count + 1)
    ELSE [n |-> acc, len |-> count]

ParseNumber(s, i) ==
    LET neg == s[i] = "-"
        j == IF neg THEN i + 1 ELSE i
        int == ParseDigits(s, j, 0, 0)
        k == j + int.len
        hasFrac == k <= Len(s) /\ s[k] = "."
        frac == IF hasFrac THEN ParseDigits(s, k + 1, 0, 0) ELSE [n |-> 0, len |-> 0]
        magnitude == int.n * Pow10(frac.len) + frac.n
    IN  IF int.len = 0 \/ (int.len > 1 /\ s[j] = "0") \/ (hasFrac /\ frac.len = 0)
        THEN SyntaxError
        ELSE Parsed(JNum(IF neg THEN 0 - magnitude ELSE magnitude, Pow10(frac.len)),
                    IF hasFrac THEN k + 1 + frac.len ELSE k)

Unescape(c) ==
    CASE c = "n" -> "\n" [] c = "t" -> "\t" [] c = "r" -> "\r" [] c = "f" -> "\f"
      [] OTHER -> c

\* s[j] follows an even number of reverse solidi in a row (counted from s[i]
\* on): it is not the character an escape names
Unescaped(s, i, j) ==
    Cardinality({k \in i..(j - 1) : \A m \in k..(j - 1) : s[m] = "\\"}) % 2 = 0

\* the characters of a string whose opening quote is before s[i]: the text up
\* to the first quote that no escape names, every escape replaced by the
\* character it names; an unknown escape or a control character is an error
ParseString(s, i, acc) ==
    LET closing == {j \in i..Len(s) : s[j] = "\"" /\ Unescaped(s, i, j)}
        end == CHOOSE j \in closing : \A k \in closing : j <= k
        escapes == {j \in i..(end - 1) : s[j] = "\\" /\ Unescaped(s, i, j)}
        named == [j \in 1..(end - i) |->
                    IF (i + j - 2) \in escapes THEN Unescape(s[i + j - 1]) ELSE s[i + j - 1]]
    IN  IF closing = {} THEN SyntaxError
        ELSE IF \E j \in escapes : s[j + 1] \notin {"\"", "\\", "/", "n", "t", "r", "f"}
             THEN SyntaxError
        ELSE IF \E j \in i..(end - 1) : s[j] \in ControlChars THEN SyntaxError
        ELSE Parsed(acc \o Keep(named, [j \in 1..(end - i) |-> (i + j - 1) \notin escapes]),
                    end + 1)

HasPrefixAt(s, i, word) ==
    i + Len(word) - 1 <= Len(s) /\ SubSeq(s, i, i + Len(word) - 1) = word

RECURSIVE ParseValue(_, _)
RECURSIVE ParseElements(_, _, _)
RECURSIVE ParseMembers(_, _, _, _)

ParseValue(s, from) ==
    LET i == SkipWs(s, from)
    IN  IF i > Len(s) THEN SyntaxError
        ELSE IF s[i] = "{"
             THEN IF SkipWs(s, i + 1) <= Len(s) /\ s[SkipWs(s, i + 1)] = "}"
                  THEN Parsed(JObj(<<>>, <<>>), SkipWs(s, i + 1) + 1)
                  ELSE ParseMembers(s, i + 1, <<>>, <<>>)
        ELSE IF s[i] = "["
             THEN IF SkipWs(s, i + 1) <= Len(s) /\ s[SkipWs(s, i + 1)] = "]"
                  THEN Parsed(JArr(<<>>), SkipWs(s, i + 1) + 1)
                  ELSE ParseElements(s, i + 1, <<>>)
        ELSE IF s[i] = "\""
             THEN LET r == ParseString(s, i + 1, <<>>)
                  IN  IF r.ok THEN Parsed(JStr(r.v), r.i) ELSE SyntaxError
        ELSE IF s[i] = "-" \/ IsDigit(s[i]) THEN ParseNumber(s, i)
        ELSE IF HasPrefixAt(s, i, Chars("true")) THEN Parsed(JBool(TRUE), i + 4)
        ELSE IF HasPrefixAt(s, i, Chars("false")) THEN Parsed(JBool(FALSE), i + 5)
        ELSE IF HasPrefixAt(s, i, Chars("null")) THEN Parsed(JNull, i + 4)
        ELSE SyntaxError

\* the elements of an array, the next one starting at s[from]
ParseElements(s, from, acc) ==
    LET r == ParseValue(s, from)
        j == SkipWs(s, r.i)
    IN  IF ~r.ok THEN SyntaxError
        ELSE IF j > Len(s) THEN SyntaxError
        ELSE IF s[j] = "," THEN ParseElements(s, j + 1, Append(acc, r.v))
        ELSE IF s[j] = "]" THEN Parsed(JArr(Append(acc, r.v)), j + 1)
        ELSE SyntaxError

\* the members of an object, the next name starting at s[from]
ParseMembers(s, from, keys, vals) ==
    LET i == SkipWs(s, from)
        key == ParseString(s, i + 1, <<>>)
        colon == SkipWs(s, key.i)
        r == ParseValue(s, colon + 1)
        j == SkipWs(s, r.i)
    IN  IF i > Len(s) \/ s[i] # "\"" THEN SyntaxError
        ELSE IF ~key.ok THEN SyntaxError
        ELSE IF colon > Len(s) \/ s[colon] # ":" THEN SyntaxError
        ELSE IF ~r.ok THEN SyntaxError
        ELSE IF j > Len(s) THEN SyntaxError
        ELSE IF s[j] = ","
             THEN ParseMembers(s, j + 1, Append(keys, key.v), Append(vals, r.v))
        ELSE IF s[j] = "}"
             THEN Parsed(JObj(Append(keys, key.v), Append(vals, r.v)), j + 1)
        ELSE SyntaxError

\* JSON.parse(text): the whole text must be one value
JSONParse(text) ==
    LET r == ParseValue(text, 1)
    IN  IF r.ok /\ SkipWs(text, r.i) > Len(text) THEN r ELSE SyntaxError

(***************************************************************************)
(* safeJsonParse (safety.ts)                                               *)
(***************************************************************************)

\* the grave accent character, which a TLA+ string cannot hold
Backtick == "<grave accent>"

\* the patterns of the Markdown code fence, with and without the word json
Fence == <<Backtick, Backtick, Backtick, "\\n?">>
JsonFence == <<Backtick, Backtick, Backtick>> \o Chars("json") \o <<"\\n?">>

\* jsonString without the code fences around it
Cleaned(jsonString) ==
    Trim(RemoveAll(Fence, FALSE, RemoveAll(JsonFence, FALSE, jsonString)))

\* the parsed value, or null when JSON.parse throws
safeJsonParse(jsonString) ==
    LET parsed == JSONParse(Cleaned(jsonString))
    IN  IF parsed.ok THEN parsed.v ELSE JNull

(***************************************************************************)
(* Catalog layer (inventory.ts)                                            *)
(***************************************************************************)

\* ExperienceSchema accepts v
ExperienceSchema(v) ==
    /\ v.t = "object"
    /\ zInt(Get(v, Chars("id"))) /\ zPositive(Get(v, Chars("id")))
    /\ zString(Get(v, Chars("title"))) /\ Len(Get(v, Chars("title")).s) >= 1
    /\ zString(Get(v, Chars("location"))) /\ Len(Get(v, Chars("location")).s) >= 1
    /\ zPositive(Get(v, Chars("price")))
    /\ zStringArray(Get(v, Chars("tags"))) /\ Len(Get(v, Chars("tags")).a) >= 1

\* InventorySchema = z.array(ExperienceSchema) accepts v
InventorySchema(v) ==
    v.t = "array" /\ \A i \in 1..Len(v.a) : ExperienceSchema(v.a[i])

\* the Experience that ExperienceSchema gives for an accepted v
ExperienceOf(v) ==
    [ id       |-> NumberOf(Get(v, Chars("id"))),
      title    |-> Get(v, Chars("title")).s,
      location |-> Get(v, Chars("location")).s,
      price    |-> NumberOf(Get(v, Chars("price"))),
      tags     |-> StringsOf(Get(v, Chars("tags"))) ]

Returned(x) == [threw |-> FALSE, value |-> x]
Threw(msg) == [threw |-> TRUE, message |-> msg]

\* getAllExperiences over the dataset inventoryData
getAllExperiences(inventoryData) ==
    IF InventorySchema(inventoryData)
    THEN Returned([i \in 1..Len(inventoryData.a) |-> ExperienceOf(inventoryData.a[i])])
    ELSE Threw(Chars("Invalid inventory data structure"))

\* Array.prototype.includes
Includes(arr, x) == \E i \in 1..Len(arr) : arr[i] = x

\* a filter that demands every selected tag instead of at least one
filterExperiences_AllTags(experiences, minPrice, maxPrice, selectedTags) ==
    SelectSeq(experiences, LAMBDA exp :
        /\ (minPrice = None \/ exp.price >= minPrice[1])
        /\ (maxPrice = None \/ exp.price <= maxPrice[1])
        /\ \/ selectedTags = None
           \/ \A i \in 1..Len(selectedTags[1]) : Includes(exp.tags, selectedTags[1][i]))

\* a filter that reads no upper price bound
filterExperiences_NoMaxPrice(experiences, minPrice, maxPrice, selectedTags) ==
    SelectSeq(experiences, LAMBDA exp :
        /\ (minPrice = None \/ exp.price >= minPrice[1])
        /\ \/ selectedTags = None
           \/ Len(selectedTags[1]) = 0
           \/ \E i \in 1..Len(selectedTags[1]) : Includes(exp.tags, selectedTags[1][i]))

filterExperiences(experiences, minPrice, maxPrice, selectedTags) ==
    SelectSeq(experiences, LAMBDA exp :
        LET withinPriceRange ==
                /\ (minPrice = None \/ exp.price >= minPrice[1])
                /\ (maxPrice = None \/ exp.price <= maxPrice[1])
            matchesTags ==
                \/ selectedTags = None
                \/ Len(selectedTags[1]) = 0
                \/ \E i \in 1..Len(selectedTags[1]) : Includes(exp.tags, selectedTags[1][i])
        IN  withinPriceRange /\ matchesTags)

(***************************************************************************)
(* validateExperienceIds (safety.ts)                                       *)
(***************************************************************************)

\* a validation that lets every ID through
validateExperienceIds_Unchecked(ids, inventory) == ids

validateExperienceIds(ids, inventory) ==
    LET validIds == {inventory[i].id : i \in 1..Len(inventory)}
    IN  SelectSeq(ids, LAMBDA id : id \in validIds)

(***************************************************************************)
(* Specification of sanitizeUserInput: the argument is any concatenation   *)
(* of at most MaxFragments fragments.                                      *)
(***************************************************************************)

NoValue == [t |-> "none"]

\* no page rendered, no request issued, no debounced function made
NoPage ==
    /\ page = NoValue
    /\ requests = <<>>
    /\ timer = NoValue

\* no key configured, no client created, nothing sent, no AI call settled
NoAI ==
    /\ env = [GEMINI_API_KEY |-> None]
    /\ clients = 0
    /\ sent = <<>>
    /\ outcome = [kind |-> "none"]

MaxFragments == 3

\* a text longer than the truncation length once two more characters follow
Filler == [i \in 1..(MaxSanitizedLength - 1) |-> "x"]

Fragments ==
    { Chars("sys"), Chars("tem:"), Chars("You Are Now"), Chars("ignore previous"),
      Chars(" instructions"), Chars(" "), Chars("\t"), Chars("ab"),
      Chars("DISREGARD  all"), Filler }

RECURSIVE TextsOf(_)
TextsOf(n) ==
    IF n = 0 THEN {<<>>}
    ELSE TextsOf(n - 1) \cup {t \o f : t \in TextsOf(n - 1), f \in Fragments}

InitSanitize ==
    /\ pc = "sanitize"
    /\ call \in {[input |-> t] : t \in TextsOf(MaxFragments)}
    /\ ret = NoValue
    /\ NoAI
    /\ NoPage

Sanitize ==
    /\ pc = "sanitize"
    /\ ret' = sanitizeUserInput(call.input)
    /\ pc' = "sanitized"
    /\ UNCHANGED <<call, env, clients, sent, outcome, page, requests, timer>>

NextSanitize == Sanitize

SpecSanitize == InitSanitize /\ [][NextSanitize]_vars

\* the phrasings of the denylist: words separated by any run of whitespace
DenylistedPhrasings ==
    { Concat(<<Chars("ignore"), <<"\\s+">>, Chars("previous"), <<"\\s+">>,
               Chars("instructions")>>),
      Chars("system:"),
      Concat(<<Chars("you"), <<"\\s+">>, Chars("are"), <<"\\s+">>, Chars("now")>>),
      Concat(<<Chars("disregard"), <<"\\s+">>, Chars("all")>>) }

\* C3: the text sanitizeUserInput returns contains none of the denylisted
\* phrasings, compared case-insensitively, words separated by any whitespace run
C3_NoDenylistedPhrase ==
    pc = "sanitized" => \A p \in DenylistedPhrasings : ~Contains(p, TRUE, ret)

(***************************************************************************)
(* Catalogs of the model: lists of at most MaxCatalog sample records.      *)
(***************************************************************************)

Experience(id, title, location, price, tags) ==
    [id |-> id, title |-> Chars(title), location |-> Chars(location),
     price |-> price, tags |-> tags]

SampleExperiences ==
    { Experience(1, "Surf & Chill Retreat", "Arugam Bay", 80,
                 <<Chars("beach"), Chars("surfing")>>),
      Experience(2, "Coastal Heritage Wander", "Galle Fort", 45,
                 <<Chars("history"), Chars("culture")>>),
      Experience(3, "Ancient City Exploration", "Sigiriya", 120,
                 <<Chars("history"), Chars("climbing")>>),
      Experience(4, "Whale Watching", "Mirissa", 155, <<Chars("beach")>>) }

MaxCatalog == 2

RECURSIVE SeqsUpTo(_, _)
SeqsUpTo(S, n) ==
    IF n = 0 THEN {<<>>}
    ELSE SeqsUpTo(S, n - 1) \cup {Append(q, x) : q \in SeqsUpTo(S, n - 1), x \in S}

Catalogs == SeqsUpTo(SampleExperiences, MaxCatalog)

\* res lists, in order, the elements of src at the positions K
IsSubsequenceAt(res, src, K) ==
    /\ Len(res) = Cardinality(K)
    /\ \A i \in K : res[Cardinality({j \in K : j <= i})] = src[i]

(***************************************************************************)
(* Specification of validateExperienceIds                                  *)
(***************************************************************************)

MaxIds == 4

\* an ID no sample record has
HallucinatedId == 999

InitIds ==
    /\ pc = "validate"
    /\ call \in {[ids |-> ids, inventory |-> inv] :
                    ids \in SeqsUpTo({1, 2, 3, HallucinatedId}, MaxIds), inv \in Catalogs}
    /\ ret = NoValue
    /\ NoAI
    /\ NoPage

ValidateIds ==
    /\ pc = "validate"
    /\ ret' = validateExperienceIds(call.ids, call.inventory)
    /\ pc' = "validated"
    /\ UNCHANGED <<call, env, clients, sent, outcome, page, requests, timer>>

NextIds == ValidateIds

SpecIds == InitIds /\ [][NextIds]_vars

\* C4: validateExperienceIds(ids, catalog) is exactly the subsequence of ids
\* whose values are ids of catalog records: order kept, repeats kept, nothing
\* added, every ID absent from the catalog dropped
C4_ValidIdsSubsequence ==
    pc = "validated" =>
        IsSubsequenceAt(ret, call.ids,
            {i \in 1..Len(call.ids) :
                \E j \in 1..Len(call.inventory) : call.inventory[j].id = call.ids[i]})

\* [1, 999, 1, 2] against a catalog holding 1 and 2 gives [1, 1, 2]
C4_Witness ==
    /\ pc = "validated"
    /\ call.ids = <<1, HallucinatedId, 1, 2>>
    /\ ret = <<1, 1, 2>>

(***************************************************************************)
(* Specification of filterExperiences                                      *)
(***************************************************************************)

PriceBounds == {None, Some(0), Some(80), Some(100), Some(200)}

TagSelections ==
    {None, Some(<<>>), Some(<<Chars("beach")>>),
     Some(<<Chars("culture"), Chars("climbing")>>), Some(<<Chars("skiing")>>)}

InitFilter ==
    /\ pc = "filter"
    /\ call \in {[experiences |-> e, minPrice |-> lo, maxPrice |-> hi, selectedTags |-> tg] :
                    e \in Catalogs, lo \in PriceBounds, hi \in PriceBounds,
                    tg \in TagSelections}
    /\ ret = NoValue
    /\ NoAI
    /\ NoPage

FilterExperiences ==
    /\ pc = "filter"
    /\ ret' = filterExperiences(call.experiences, call.minPrice, call.maxPrice,
                                call.selectedTags)
    /\ pc' = "filtered"
    /\ UNCHANGED <<call, env, clients, sent, outcome, page, requests, timer>>

NextFilter == FilterExperiences

SpecFilter == InitFilter /\ [][NextFilter]_vars

\* the record keeps its place under the filter of the call
KeptByFilter(exp) ==
    /\ call.minPrice # None => exp.price >= call.minPrice[1]
    /\ call.maxPrice # None => exp.price <= call.maxPrice[1]
    /\ (call.selectedTags # None /\ call.selectedTags[1] # <<>>) =>
            {exp.tags[i] : i \in 1..Len(exp.tags)}
                \cap {call.selectedTags[1][i] : i \in 1..Len(call.selectedTags[1])} # {}

\* C5: filterExperiences returns exactly the records, in input order, within
\* the price bounds that are present and having one of the selected tags when
\* some are selected; an inverted range gives the empty list
C5_FilterExact ==
    pc = "filtered" =>
        /\ IsSubsequenceAt(ret, call.experiences,
                {i \in 1..Len(call.experiences) : KeptByFilter(call.experiences[i])})
        /\ (call.minPrice # None /\ call.maxPrice # None
                /\ call.minPrice[1] > call.maxPrice[1]) => ret = <<>>

\* both bounds and a tag selection given, one record kept and one dropped
C5_Witness ==
    /\ pc = "filtered"
    /\ call.minPrice = Some(80) /\ call.maxPrice = Some(200)
    /\ call.selectedTags = Some(<<Chars("culture"), Chars("climbing")>>)
    /\ Len(call.experiences) = 2
    /\ Len(ret) = 1 /\ ret[1] = call.experiences[2]

(***************************************************************************)
(* Specification of getAllExperiences: the dataset is any list of at most  *)
(* MaxDataset raw records.                                                 *)
(***************************************************************************)

RawExperience(id, title, price, tags) ==
    JObj(<<Chars("id"), Chars("title"), Chars("location"), Chars("price"), Chars("tags")>>,
         <<id, JStr(Chars(title)), JStr(Chars("Galle Fort")), price, JArr(tags)>>)

RawRecords ==
    {RawExperience(id, "Coastal Heritage Wander", price, tags) :
        id \in {JInt(1), JInt(2), JInt(0), JInt(-1), JNum(3, 2)},
        price \in {JInt(45), JInt(0), JInt(-5)},
        tags \in {<<>>, <<JStr(Chars("history")), JStr(Chars("culture"))>>}}
    \cup {RawExperience(JInt(3), "", JInt(45), <<JStr(Chars("history"))>>)}

MaxDataset == 2

InitLoad ==
    /\ pc = "load"
    /\ call \in {[inventoryData |-> JArr(d)] : d \in SeqsUpTo(RawRecords, MaxDataset)}
    /\ ret = NoValue
    /\ NoAI
    /\ NoPage

GetAllExperiences ==
    /\ pc = "load"
    /\ ret' = getAllExperiences(call.inventoryData)
    /\ pc' = "loaded"
    /\ UNCHANGED <<call, env, clients, sent, outcome, page, requests, timer>>

NextLoad == GetAllExperiences

SpecLoad == InitLoad /\ [][NextLoad]_vars

\* the raw record breaks one of the rules the catalog is loaded under
InvalidRecord(r) ==
    \/ Get(r, Chars("price")).n <= 0
    \/ Get(r, Chars("tags")).a = <<>>
    \/ Get(r, Chars("id")).n <= 0
    \/ Get(r, Chars("id")).n % Get(r, Chars("id")).d # 0
    \/ Get(r, Chars("title")).s = <<>>

DuplicateIds(d) ==
    \E i, j \in 1..Len(d) : i # j /\ Get(d[i], Chars("id")) = Get(d[j], Chars("id"))

\* C6: loading the catalog fails fatally whenever a record has price <= 0, no
\* tags, a non-positive or non-integer id, or two records share an id; it
\* returns the full ordered list only when every record is valid and the ids
\* are pairwise distinct
C6_LoadFailsOnInvalidCatalog ==
    pc = "loaded" =>
        LET d == call.inventoryData.a
            broken == (\E i \in 1..Len(d) : InvalidRecord(d[i])) \/ DuplicateIds(d)
        IN  /\ broken => ret.threw
            /\ ~ret.threw =>
                /\ ~broken
                /\ ret.value = [i \in 1..Len(d) |-> ExperienceOf(d[i])]

(***************************************************************************)
(* SearchRequestSchema (validation.ts) and its specification               *)
(***************************************************************************)

MinQueryLength == 3
MaxQueryLength == 200

\* schema.optional(): the property is missing, or the schema accepts it
zOptional(v, accepts) == v.t = "undefined" \/ accepts

\* SearchRequestSchema accepts v
SearchRequestSchema(v) ==
    /\ v.t = "object"
    /\ zString(Get(v, Chars("query")))
    /\ Len(Get(v, Chars("query")).s) >= MinQueryLength
    /\ Len(Get(v, Chars("query")).s) <= MaxQueryLength
    /\ LET filters == Get(v, Chars("filters"))
       IN  zOptional(filters,
             /\ filters.t = "object"
             /\ zOptional(Get(filters, Chars("minPrice")),
                          zNonNegative(Get(filters, Chars("minPrice"))))
             /\ zOptional(Get(filters, Chars("maxPrice")),
                          zNonNegative(Get(filters, Chars("maxPrice"))))
             /\ zOptional(Get(filters, Chars("selectedTags")),
                          zStringArray(Get(filters, Chars("selectedTags")))))

\* the text of n characters x
Xs(n) == [i \in 1..n |-> "x"]

RequestQueries ==
    { Undefined, JInt(12345), JStr(<<>>), JStr(Chars("ab")), JStr(Chars("abc")),
      JStr(Chars("   ")), JStr(Chars(" ab ")), JStr(Chars("beach vacation")),
      JStr(Xs(MaxQueryLength)), JStr(Xs(MaxQueryLength + 1)),
      JStr(Chars(" ") \o Xs(MaxQueryLength)) }

Filters(keys, vals) == JObj([i \in 1..Len(keys) |-> Chars(keys[i])], vals)

RequestFilters ==
    { Undefined, JNull, Filters(<<>>, <<>>),
      Filters(<<"minPrice">>, <<JInt(50)>>),
      Filters(<<"minPrice">>, <<JInt(-1)>>),
      Filters(<<"minPrice">>, <<JStr(Chars("50"))>>),
      Filters(<<"maxPrice">>, <<JInt(0)>>),
      Filters(<<"maxPrice">>, <<JInt(-1)>>),
      Filters(<<"minPrice", "maxPrice">>, <<JInt(200), JInt(100)>>),
      Filters(<<"selectedTags">>, <<JArr(<<JStr(Chars("beach"))>>)>>),
      Filters(<<"selectedTags">>, <<JArr(<<JInt(1)>>)>>),
      Filters(<<"selectedTags">>, <<JStr(Chars("beach"))>>),
      Filters(<<"minPrice", "maxPrice", "selectedTags">>,
              <<JInt(0), JInt(150), JArr(<<JStr(Chars("adventure"))>>)>>) }

\* the request body with the members that are not undefined
RequestBody(query, filters) ==
    LET members == SelectSeq(<< <<Chars("query"), query>>, <<Chars("filters"), filters>> >>,
                             LAMBDA m : m[2].t # "undefined")
    IN  JObj([i \in 1..Len(members) |-> members[i][1]],
             [i \in 1..Len(members) |-> members[i][2]])

InitSchema ==
    /\ pc = "parse"
    /\ call \in {[body |-> RequestBody(q, f)] : q \in RequestQueries, f \in RequestFilters}
    /\ ret = NoValue
    /\ NoAI
    /\ NoPage

\* SearchRequestSchema.safeParse(body)
SafeParseRequest ==
    /\ pc = "parse"
    /\ ret' = [success |-> SearchRequestSchema(call.body)]
    /\ pc' = "parsed"
    /\ UNCHANGED <<call, env, clients, sent, outcome, page, requests, timer>>

NextSchema == SafeParseRequest

SpecSchema == InitSchema /\ [][NextSchema]_vars

\* every supplied filter field is well-formed
WellFormedFilters(f) ==
    \/ f.t = "undefined"
    \/ /\ f.t = "object"
       /\ \A i \in 1..Len(f.k) :
            /\ f.k[i] \in {Chars("minPrice"), Chars("maxPrice")} =>
                    f.v[i].t = "number" /\ f.v[i].n >= 0
            /\ f.k[i] = Chars("selectedTags") =>
                    f.v[i].t = "array" /\ \A j \in 1..Len(f.v[i].a) : f.v[i].a[j].t = "string"

\* C7: SearchRequestSchema accepts a request exactly when its query has between
\* 3 and 200 characters after trimming and every supplied filter field is
\* well-formed
C7_AcceptsTrimmedLength ==
    pc = "parsed" =>
        (ret.success <=>
            /\ Get(call.body, Chars("query")).t = "string"
            /\ Len(Trim(Get(call.body, Chars("query")).s)) >= 3
            /\ Len(Trim(Get(call.body, Chars("query")).s)) <= 200
            /\ WellFormedFilters(Get(call.body, Chars("filters"))))

(***************************************************************************)
(* LLMRecommendationSchema (validation.ts)                                 *)
(***************************************************************************)

MaxRecommendations == 5
MinReasoningLength == 10

\* a schema without the cap on the number of IDs
LLMRecommendationSchema_NoMax(v) ==
    /\ v.t = "object"
    /\ Get(v, Chars("experience_ids")).t = "array"
    /\ \A i \in 1..Len(Get(v, Chars("experience_ids")).a) :
            zInt(Get(v, Chars("experience_ids")).a[i])
                /\ zPositive(Get(v, Chars("experience_ids")).a[i])
    /\ zString(Get(v, Chars("reasoning")))
    /\ Len(Get(v, Chars("reasoning")).s) >= MinReasoningLength
    /\ zOptional(Get(v, Chars("matched_tags")), zStringArray(Get(v, Chars("matched_tags"))))

\* LLMRecommendationSchema accepts v
LLMRecommendationSchema(v) ==
    /\ v.t = "object"
    /\ Get(v, Chars("experience_ids")).t = "array"
    /\ \A i \in 1..Len(Get(v, Chars("experience_ids")).a) :
            zInt(Get(v, Chars("experience_ids")).a[i])
                /\ zPositive(Get(v, Chars("experience_ids")).a[i])
    /\ Len(Get(v, Chars("experience_ids")).a) >= 0
    /\ Len(Get(v, Chars("experience_ids")).a) <= MaxRecommendations
    /\ zString(Get(v, Chars("reasoning")))
    /\ Len(Get(v, Chars("reasoning")).s) >= MinReasoningLength
    /\ zOptional(Get(v, Chars("matched_tags")), zStringArray(Get(v, Chars("matched_tags"))))

\* validationResult.data for an accepted v
LLMRecommendationOf(v) ==
    [ experience_ids |-> [i \in 1..Len(Get(v, Chars("experience_ids")).a) |->
                              NumberOf(Get(v, Chars("experience_ids")).a[i])],
      reasoning      |-> Get(v, Chars("reasoning")).s,
      matched_tags   |-> IF Get(v, Chars("matched_tags")).t = "undefined" THEN None
                         ELSE Some(StringsOf(Get(v, Chars("matched_tags")))) ]

(***************************************************************************)
(* getFallbackRecommendations (safety.ts)                                  *)
(***************************************************************************)

\* the price the fallback prefers
MidRangePrice == 100

Abs(x) == IF x < 0 THEN 0 - x ELSE x

\* x put into the sorted list after every record that is not farther from the
\* mid-range price: Array.prototype.sort is stable
RECURSIVE InsertByMidRange(_, _)
InsertByMidRange(sorted, x) ==
    IF sorted = <<>> THEN <<x>>
    ELSE IF Abs(x.price - MidRangePrice) - Abs(Head(sorted).price - MidRangePrice) < 0
         THEN <<x>> \o sorted
         ELSE <<Head(sorted)>> \o InsertByMidRange(Tail(sorted), x)

\* [...inventory].sort((a, b) => aMidRange - bMidRange)
RECURSIVE SortByMidRange(_)
SortByMidRange(inventory) ==
    IF inventory = <<>> THEN <<>>
    ELSE InsertByMidRange(SortByMidRange(SubSeq(inventory, 1, Len(inventory) - 1)),
                          inventory[Len(inventory)])

Min(a, b) == IF a <= b THEN a ELSE b

\* the first IDs of the catalog as it is, not sorted
getFallbackRecommendations_Unsorted(inventory, count) ==
    [i \in 1..Min(count, Len(inventory)) |-> inventory[i].id]

getFallbackRecommendations(inventory, count) ==
    LET sorted == SortByMidRange(inventory)
    IN  [i \in 1..Min(count, Len(inventory)) |-> sorted[i].id]

(***************************************************************************)
(* Specification of getFallbackRecommendations: any catalog, any count of  *)
(* 0 to MaxCount.  The sort works on a copy ([...inventory]), the array    *)
(* passed in is left as it is.                                             *)
(***************************************************************************)

MaxCount == 3

InitFallback ==
    /\ pc = "fallback"
    /\ call \in {[inventory |-> inv, count |-> c] : inv \in Catalogs, c \in 0..MaxCount}
    /\ ret = NoValue
    /\ NoAI
    /\ NoPage

GetFallbackRecommendations ==
    /\ pc = "fallback"
    /\ ret' = getFallbackRecommendations(call.inventory, call.count)
    /\ pc' = "fellback"
    /\ UNCHANGED <<call, env, clients, sent, outcome, page, requests, timer>>

NextFallback == GetFallbackRecommendations

SpecFallback == InitFallback /\ [][NextFallback]_vars

\* the place of the record at position i once the catalog is ordered by
\* distance of price from 100, records at equal distance in catalog order
MidRangeRank(inventory, i) ==
    Cardinality({j \in 1..Len(inventory) :
        \/ Abs(inventory[j].price - 100) < Abs(inventory[i].price - 100)
        \/ Abs(inventory[j].price - 100) = Abs(inventory[i].price - 100) /\ j <= i})

\* C11: getFallbackRecommendations(catalog, count) returns min(count, size)
\* IDs, the ids of the records of the catalog in ascending order of
\* |price - 100| with ties in catalog order (one list only fits, hence the
\* same list on every call), and the catalog passed in is left in its order
C11_FallbackByMidRange ==
    [][pc' = "fellback" =>
        /\ Len(ret') = (IF call.count <= Len(call.inventory)
                        THEN call.count ELSE Len(call.inventory))
        /\ \A i \in 1..Len(call.inventory) :
              MidRangeRank(call.inventory, i) <= Len(ret') =>
                  ret'[MidRangeRank(call.inventory, i)] = call.inventory[i].id
        /\ call'.inventory = call.inventory]_vars

\* a catalog priced 45 then 120 and a count of 1: the record at 120 comes first
C11_Witness ==
    /\ pc = "fellback"
    /\ call.count = 1
    /\ Len(call.inventory) = 2
    /\ call.inventory[1].price = 45 /\ call.inventory[2].price = 120
    /\ ret = <<call.inventory[2].id>>

(***************************************************************************)
(* Recommendation engine client (getRecommendations)                       *)
(***************************************************************************)

\* new Error(message), and a thrown value that is no Error
Error(message) == [isError |-> TRUE, message |-> Chars(message)]
NonError == [isError |-> FALSE, message |-> <<>>]

\* !apiKey in initGeminiClient
MissingApiKey(e) == e.GEMINI_API_KEY = None \/ e.GEMINI_API_KEY = Some(<<>>)

\* the number of fallback recommendations
FallbackCount == 3

\* a fallback that leaves matched_tags out
getFallbackResponse_NoTags(inventory, reason) ==
    [ experience_ids |-> getFallbackRecommendations(inventory, FallbackCount),
      reasoning      |-> Chars(reason),
      matched_tags   |-> None ]

getFallbackResponse(inventory, reason) ==
    [ experience_ids |-> getFallbackRecommendations(inventory, FallbackCount),
      reasoning      |-> Chars(reason),
      matched_tags   |-> Some(<<>>) ]

\* the shortest sanitized query that is sent to the AI
MinSanitizedLength == 3

\* a guard that stops only the empty query
TooShort_OnlyEmpty(sanitizedQuery) == sanitizedQuery = <<>>

\* !sanitizedQuery || sanitizedQuery.length < 3
TooShort(sanitizedQuery) ==
    sanitizedQuery = <<>> \/ Len(sanitizedQuery) < MinSanitizedLength

\* the decimal digits of a natural number
RECURSIVE NumToText(_)
NumToText(n) ==
    IF n < 10 THEN <<Digits[n + 1]>>
    ELSE NumToText(n \div 10) \o <<Digits[(n % 10) + 1]>>

\* arr.join(sep)
RECURSIVE Join(_, _)
Join(arr, sep) ==
    IF arr = <<>> THEN <<>>
    ELSE IF Len(arr) = 1 THEN arr[1]
    ELSE arr[1] \o sep \o Join(Tail(arr), sep)

\* the user message: the sanitized query and the filter hints appended to it
UserMessage(sanitizedQuery, filters) ==
    LET price ==
            IF filters.minPrice # None \/ filters.maxPrice # None
            THEN Chars("\n\nAdditional constraint: Price range: $")
                 \o (IF filters.minPrice = None THEN Chars("0")
                     ELSE NumToText(filters.minPrice[1]))
                 \o Chars(" - $")
                 \o (IF filters.maxPrice = None THEN Chars("unlimited")
                     ELSE NumToText(filters.maxPrice[1]))
            ELSE <<>>
        tags ==
            IF filters.selectedTags # None /\ Len(filters.selectedTags[1]) > 0
            THEN Chars("\n\nPreferred tags: ") \o Join(filters.selectedTags[1], Chars(", "))
            ELSE <<>>
    IN  sanitizedQuery \o price \o tags

\* !parsedResponse
Falsy(v) ==
    \/ v.t \in {"null", "undefined"}
    \/ v.t = "boolean" /\ ~v.b
    \/ v.t = "number" /\ v.n = 0
    \/ v.t = "string" /\ v.s = <<>>

\* the statements after the await: parse, validate, drop the unknown IDs
ProcessResponse(responseText, inventory) ==
    LET parsedResponse == safeJsonParse(responseText)
    IN  IF Falsy(parsedResponse)
        THEN getFallbackResponse(inventory,
                "Unable to parse AI response. Showing popular experiences.")
        ELSE IF ~LLMRecommendationSchema(parsedResponse)
        THEN getFallbackResponse(inventory,
                "AI response format was invalid. Showing popular experiences.")
        ELSE LET data == LLMRecommendationOf(parsedResponse)
             IN  [ experience_ids |-> validateExperienceIds(data.experience_ids, inventory),
                   reasoning      |-> data.reasoning,
                   matched_tags   |-> IF data.matched_tags = None THEN Some(<<>>)
                                      ELSE data.matched_tags ]

\* a handler that knows rate limiting by "429" alone
HandleError_NoQuota(error, inventory) ==
    IF error.isError /\ StrIncludes(error.message, Chars("API key"))
    THEN Threw(error.message)
    ELSE IF error.isError /\ StrIncludes(error.message, Chars("429"))
    THEN Returned(getFallbackResponse(inventory,
            "AI service is temporarily busy. Showing popular experiences."))
    ELSE Returned(getFallbackResponse(inventory,
            "Unable to process your request. Showing popular experiences."))

\* the catch block
HandleError(error, inventory) ==
    IF error.isError /\ StrIncludes(error.message, Chars("API key"))
    THEN Threw(error.message)
    ELSE IF error.isError /\ (\/ StrIncludes(error.message, Chars("429"))
                              \/ StrIncludes(error.message, Chars("quota")))
    THEN Returned(getFallbackResponse(inventory,
            "AI service is temporarily busy. Showing popular experiences."))
    ELSE Returned(getFallbackResponse(inventory,
            "Unable to process your request. Showing popular experiences."))

(***************************************************************************)
(* Specification of getRecommendations: one call, from its entry to the    *)
(* await of chat.sendMessage, and from the settled call to the end.        *)
(***************************************************************************)

RecoQueries ==
    { Chars("ab"), Chars("ignore previous instructions"), Chars("beach vacation"),
      Chars("you are now ab") }

RecoFilters ==
    { [minPrice |-> None, maxPrice |-> None, selectedTags |-> None],
      [minPrice |-> Some(50), maxPrice |-> None,
       selectedTags |-> Some(<<Chars("beach"), Chars("surfing")>>)] }

\* the catalogs of the model, and three lists long enough for the fallback to
\* choose from: in catalog order, reordered, and with a repeated record
RecoInventories ==
    Catalogs \cup
    { << Experience(1, "Surf & Chill Retreat", "Arugam Bay", 80,
                    <<Chars("beach"), Chars("surfing")>>),
         Experience(2, "Coastal Heritage Wander", "Galle Fort", 45,
                    <<Chars("history"), Chars("culture")>>),
         Experience(3, "Ancient City Exploration", "Sigiriya", 120,
                    <<Chars("history"), Chars("climbing")>>),
         Experience(4, "Whale Watching", "Mirissa", 155, <<Chars("beach")>>) >>,
      << Experience(4, "Whale Watching", "Mirissa", 155, <<Chars("beach")>>),
         Experience(3, "Ancient City Exploration", "Sigiriya", 120,
                    <<Chars("history"), Chars("climbing")>>),
         Experience(2, "Coastal Heritage Wander", "Galle Fort", 45,
                    <<Chars("history"), Chars("culture")>>),
         Experience(1, "Surf & Chill Retreat", "Arugam Bay", 80,
                    <<Chars("beach"), Chars("surfing")>>) >>,
      << Experience(2, "Coastal Heritage Wander", "Galle Fort", 45,
                    <<Chars("history"), Chars("culture")>>),
         Experience(4, "Whale Watching", "Mirissa", 155, <<Chars("beach")>>),
         Experience(2, "Coastal Heritage Wander", "Galle Fort", 45,
                    <<Chars("history"), Chars("culture")>>) >> }

\* the texts the AI service answers with: a JSON object with these members
ResponseObject(ids, reasoning, tags) ==
    Concat(<< Chars("{\"experience_ids\": "), Chars(ids), Chars(", \"reasoning\": \""),
              Chars(reasoning), Chars("\""), Chars(tags), Chars("}") >>)

ResponseObjects ==
    { ResponseObject(ids, reasoning, tags) :
        ids \in {"[]", "[1]", "[2, 999, 1]", "[1, 1]", "[1, 2, 3, 4, 1, 2]", "[1.5]",
                 "[0]", "[\"1\"]"},
        reasoning \in {"Good", "A relaxed beach stay within your budget."},
        tags \in {"", ", \"matched_tags\": [\"beach\", \"surfing\"]",
                  ", \"matched_tags\": null"} }

\* ... wrapped in a Markdown code fence, and texts that are no such object
AIResponses ==
    ResponseObjects \cup
    { <<Backtick, Backtick, Backtick>> \o Chars("json\n")
        \o ResponseObject("[1, 999]", "A relaxed beach stay within your budget.", "")
        \o Chars("\n") \o <<Backtick, Backtick, Backtick>>,
      Chars("{invalid json}"), Chars(""), Chars("null"), Chars("0"), Chars("false"),
      Chars("\"\""), Chars("42"), Chars("[1, 2]") }

\* what the AI service call fails with
SdkFailures ==
    { Error("[GoogleGenerativeAI Error]: [400 Bad Request] API key not valid. Please pass a valid API key."),
      Error("[GoogleGenerativeAI Error]: [429 Too Many Requests] Resource has been exhausted"),
      Error("[GoogleGenerativeAI Error]: You exceeded your current quota"),
      Error("[GoogleGenerativeAI Error]: [503 Service Unavailable] The model is overloaded"),
      Error("fetch failed"),
      NonError }

InitReco ==
    /\ pc = "idle"
    /\ call = NoValue
    /\ ret = NoValue
    /\ env \in {[GEMINI_API_KEY |-> k] : k \in {None, Some(<<>>), Some(Chars("AIzaSyExample"))}}
    /\ clients = 0
    /\ sent = <<>>
    /\ outcome = [kind |-> "none"]
    /\ NoPage

\* getRecommendations(userQuery, filters, inventory) up to its first await
GetRecommendations ==
    /\ pc = "idle"
    /\ \E userQuery \in RecoQueries, filters \in RecoFilters, inventory \in RecoInventories :
        LET sanitizedQuery == sanitizeUserInput(userQuery)
        IN  /\ call' = [userQuery |-> userQuery, filters |-> filters, inventory |-> inventory]
            /\ IF TooShort(sanitizedQuery)
               THEN /\ ret' = Returned(
                        [ experience_ids |-> <<>>,
                          reasoning |-> Chars("Please provide a more detailed search query (at least 3 characters)."),
                          matched_tags |-> Some(<<>>) ])
                    /\ pc' = "done"
                    /\ UNCHANGED <<clients, sent>>
               ELSE IF MissingApiKey(env)
               THEN \* initGeminiClient throws, the catch block handles it
                    /\ ret' = HandleError(
                                Error("GEMINI_API_KEY not found in environment variables. "),
                                inventory)
                    /\ pc' = "done"
                    /\ UNCHANGED <<clients, sent>>
               ELSE /\ clients' = clients + 1
                    /\ sent' = Append(sent, UserMessage(sanitizedQuery, filters))
                    /\ pc' = "awaiting"
                    /\ UNCHANGED ret
    /\ UNCHANGED <<env, outcome, page, requests, timer>>

\* chat.sendMessage resolves and result.response.text() gives responseText
SendMessageResolves ==
    /\ pc = "awaiting"
    /\ \E responseText \in AIResponses :
        /\ outcome' = [kind |-> "text", text |-> responseText]
        /\ ret' = Returned(ProcessResponse(responseText, call.inventory))
    /\ pc' = "done"
    /\ UNCHANGED <<call, env, clients, sent, page, requests, timer>>

\* the AI service call fails
SendMessageRejects ==
    /\ pc = "awaiting"
    /\ \E error \in SdkFailures :
        /\ outcome' = [kind |-> "error", error |-> error]
        /\ ret' = HandleError(error, call.inventory)
    /\ pc' = "done"
    /\ UNCHANGED <<call, env, clients, sent, page, requests, timer>>

NextReco == GetRecommendations \/ SendMessageResolves \/ SendMessageRejects

SpecReco == InitReco /\ [][NextReco]_vars

InventoryIds == {call.inventory[i].id : i \in 1..Len(call.inventory)}

\* C1: whenever getRecommendations returns a value, every element of its
\* experience_ids is the id of a record of the inventory it was given
C1_OnlyCatalogIds ==
    (pc = "done" /\ ~ret.threw) =>
        \A i \in 1..Len(ret.value.experience_ids) :
            ret.value.experience_ids[i] \in InventoryIds

\* the AI named a hallucinated ID beside two catalog IDs, and the two are returned
C1_Witness ==
    /\ pc = "done" /\ ~ret.threw
    /\ outcome.kind = "text"
    /\ outcome.text \in ResponseObjects
    /\ ret.value.experience_ids = <<2, 1>>
    /\ ret.value.reasoning = Chars("A relaxed beach stay within your budget.")

\* C2: with GEMINI_API_KEY missing and a sanitized query of at least 3
\* characters, getRecommendations throws; it returns no fallback
C2_MissingKeyIsFatal ==
    (pc = "done" /\ MissingApiKey(env) /\ Len(sanitizeUserInput(call.userQuery)) >= 3)
        => ret.threw

\* C14: every value getRecommendations returns, on every exit path, has at
\* most 5 IDs, all positive integers, a reasoning of 10 characters or more
\* and a matched_tags list that is present
C14_WellTypedResult ==
    (pc = "done" /\ ~ret.threw) =>
        /\ Len(ret.value.experience_ids) <= 5
        /\ \A i \in 1..Len(ret.value.experience_ids) :
              ret.value.experience_ids[i] \in Nat \ {0}
        /\ Len(ret.value.reasoning) >= 10
        /\ ret.value.matched_tags # None

\* the AI answer had no matched_tags member and named an unknown ID: the
\* result has the empty list and the two known IDs
C14_Witness ==
    /\ pc = "done" /\ outcome.kind = "text"
    /\ outcome.text = ResponseObject("[2, 999, 1]",
                                     "A relaxed beach stay within your budget.", "")
    /\ ~ret.threw
    /\ ret.value.experience_ids = <<2, 1>>
    /\ ret.value.matched_tags = Some(<<>>)

\* the fallback: the three records nearest the mid-range price, no matched tag
IsFallback(response, reasoning) ==
    /\ response.experience_ids = getFallbackRecommendations(call.inventory, 3)
    /\ response.matched_tags = Some(<<>>)
    /\ response.reasoning = Chars(reasoning)

\* v is not of the LLMRecommendation shape: 0 to 5 positive integer IDs, a
\* reasoning of 10 characters or more, matched_tags absent or a list of strings
ViolatesRecommendationShape(v) ==
    \/ v.t # "object"
    \/ LET ids == Get(v, Chars("experience_ids"))
           reasoning == Get(v, Chars("reasoning"))
           tags == Get(v, Chars("matched_tags"))
       IN  \/ ids.t # "array"
           \/ Len(ids.a) > 5
           \/ \E i \in 1..Len(ids.a) :
                ids.a[i].t # "number" \/ ids.a[i].n <= 0 \/ ids.a[i].n % ids.a[i].d # 0
           \/ reasoning.t # "string"
           \/ Len(reasoning.s) < 10
           \/ tags.t \notin {"undefined", "array"}
           \/ tags.t = "array" /\ \E i \in 1..Len(tags.a) : tags.a[i].t # "string"

\* C8 as stated: a text that cannot be parsed as JSON gives the fallback with
\* "Unable to parse AI response...", a text that parses but violates the
\* LLMRecommendation schema the fallback with "AI response format was invalid..."
C8_FallbackByParseOrSchema ==
    (pc = "done" /\ outcome.kind = "text") =>
        LET parsed == JSONParse(Cleaned(outcome.text))
        IN  /\ ~parsed.ok =>
                IsFallback(ret.value, "Unable to parse AI response. Showing popular experiences.")
            /\ (parsed.ok /\ ViolatesRecommendationShape(parsed.v)) =>
                IsFallback(ret.value, "AI response format was invalid. Showing popular experiences.")

\* what getRecommendations does: a text that cannot be parsed as JSON, or that
\* parses to null, false, 0 or the empty string, gives the fallback with
\* "Unable to parse AI response..."; a text that parses to any other value
\* violating the schema gives the one with "AI response format was invalid..."
FalsyValueCountsAsUnparsed ==
    (pc = "done" /\ outcome.kind = "text") =>
        LET parsed == JSONParse(Cleaned(outcome.text))
            empty == parsed.ok /\ parsed.v \in {JNull, JBool(FALSE), JInt(0), JStr(<<>>)}
        IN  /\ ~ret.threw
            /\ (~parsed.ok \/ empty) =>
                IsFallback(ret.value, "Unable to parse AI response. Showing popular experiences.")
            /\ (parsed.ok /\ ~empty /\ ViolatesRecommendationShape(parsed.v)) =>
                IsFallback(ret.value, "AI response format was invalid. Showing popular experiences.")

\* the AI proposed six IDs for a catalog of four: the three fallback IDs are
\* returned instead
SixIdsGiveFallback ==
    /\ pc = "done" /\ outcome.kind = "text"
    /\ outcome.text = ResponseObject("[1, 2, 3, 4, 1, 2]",
                                     "A relaxed beach stay within your budget.", "")
    /\ Len(call.inventory) = 4 /\ call.inventory[1].id = 1
    /\ ret.value.experience_ids = <<1, 3, 2>>
    /\ ret.value.reasoning =
          Chars("AI response format was invalid. Showing popular experiences.")

\* the failure is about the credential: its message names the API key
CredentialProblem(error) == StrIncludes(error.message, Chars("API key"))

\* C9: a failure that does not indicate a credential problem is not thrown on:
\* the fallback is returned, with "AI service is temporarily busy..." exactly
\* when the message contains "429" or "quota", and with "Unable to process
\* your request..." otherwise
C9_FailureGivesFallback ==
    (pc = "done" /\ outcome.kind = "error" /\ ~CredentialProblem(outcome.error)) =>
        /\ ~ret.threw
        /\ IF \/ StrIncludes(outcome.error.message, Chars("429"))
              \/ StrIncludes(outcome.error.message, Chars("quota"))
           THEN IsFallback(ret.value,
                    "AI service is temporarily busy. Showing popular experiences.")
           ELSE IsFallback(ret.value,
                    "Unable to process your request. Showing popular experiences.")

\* the AI call failed for an exhausted quota and the busy fallback came back
C9_Witness ==
    /\ pc = "done" /\ outcome.kind = "error"
    /\ outcome.error = Error("[GoogleGenerativeAI Error]: You exceeded your current quota")
    /\ Len(call.inventory) = 4
    /\ ~ret.threw
    /\ Len(ret.value.experience_ids) = 3
    /\ ret.value.reasoning =
          Chars("AI service is temporarily busy. Showing popular experiences.")

\* C10: with a sanitized query that is empty or shorter than 3 characters
\* getRecommendations returns no ID, an explanatory reasoning and no matched
\* tag; no AI client is created and no AI call is made, key or no key
C10_ShortQueryNoAICall ==
    (pc = "done" /\ Len(sanitizeUserInput(call.userQuery)) < 3) =>
        /\ ~ret.threw
        /\ ret.value.experience_ids = <<>>
        /\ ret.value.reasoning =
              Chars("Please provide a more detailed search query (at least 3 characters).")
        /\ ret.value.matched_tags = Some(<<>>)
        /\ clients = 0
        /\ sent = <<>>
        /\ outcome.kind = "none"

\* the key is configured and the query is two characters long
C10_Witness ==
    /\ pc = "done"
    /\ ~MissingApiKey(env)
    /\ call.userQuery = Chars("ab")
    /\ ret.value.experience_ids = <<>>
    /\ clients = 0

(***************************************************************************)
(* Specification of safeJsonParse: the argument is a JSON text or a text   *)
(* that is no JSON, bare or wrapped in a Markdown code fence.              *)
(***************************************************************************)

\* a reasoning that quotes a code fence
FenceInReasoning ==
    Chars("{\"experience_ids\": [1], \"reasoning\": \"Wrap the answer in ")
        \o <<Backtick, Backtick, Backtick>> \o Chars("json fences.\"}")

ParseBodies ==
    ResponseObjects \cup
    { Chars("{invalid json}"), Chars(""), Chars("null"), Chars("0"), Chars("false"),
      Chars("\"\""), Chars("42"), Chars("-1.5"), Chars("[1, 2]"), Chars("{\"a\": {\"b\": [true]}}"),
      Chars("{\"a\": 1,}"), Chars("\"a\\nb\""), <<"\"">> \o <<Backtick, Backtick, Backtick>> \o <<"\"">>,
      FenceInReasoning }

ParseTexts ==
    ParseBodies
    \cup {<<Backtick, Backtick, Backtick>> \o Chars("json\n") \o b \o Chars("\n")
              \o <<Backtick, Backtick, Backtick>> : b \in ParseBodies}
    \cup {<<Backtick, Backtick, Backtick>> \o Chars("\n") \o b \o Chars("\n")
              \o <<Backtick, Backtick, Backtick>> \o Chars("\n") : b \in ParseBodies}
    \cup {Chars("  ") \o <<Backtick, Backtick, Backtick>> \o Chars("json") \o b
              \o <<Backtick, Backtick, Backtick>> : b \in ParseBodies}

InitParse ==
    /\ pc = "parse"
    /\ call \in {[jsonString |-> t] : t \in ParseTexts}
    /\ ret = NoValue
    /\ NoAI
    /\ NoPage

SafeJsonParse ==
    /\ pc = "parse"
    /\ ret' = Returned(safeJsonParse(call.jsonString))
    /\ pc' = "parsed"
    /\ UNCHANGED <<call, env, clients, sent, outcome, page, requests, timer>>

NextParse == SafeJsonParse

SpecParse == InitParse /\ [][NextParse]_vars

\* s[from..] begins with word
StartsWith(s, word) == Len(s) >= Len(word) /\ SubSeq(s, 1, Len(word)) = word
EndsWith(s, word) ==
    Len(s) >= Len(word) /\ SubSeq(s, Len(s) - Len(word) + 1, Len(s)) = word

\* the text inside the code fence that wraps text, or text when none does
InnerJson(text) ==
    LET fence == <<Backtick, Backtick, Backtick>>
        t == Trim(text)
        opened == IF StartsWith(t, fence \o Chars("json")) THEN SubSeq(t, 8, Len(t))
                  ELSE IF StartsWith(t, fence) THEN SubSeq(t, 4, Len(t))
                  ELSE t
    IN  IF StartsWith(t, fence) /\ EndsWith(opened, fence)
        THEN Trim(SubSeq(opened, 1, Len(opened) - 3))
        ELSE t

\* C12: safeJsonParse never raises; it returns the value the text parses to,
\* the value its inner JSON parses to when the text is wrapped in a code fence,
\* and null when that is no JSON, as for '{invalid json}'
C12_ParsedValueOrNull ==
    pc = "parsed" =>
        /\ ~ret.threw
        /\ ret.value = (IF JSONParse(InnerJson(call.jsonString)).ok
                        THEN JSONParse(InnerJson(call.jsonString)).v
                        ELSE JNull)

\* the text has a code fence only around it
NoFenceInside(text) ==
    LET inner == InnerJson(text)
    IN  \A i \in 1..(Len(inner) - 2) :
            SubSeq(inner, i, i + 2) # <<Backtick, Backtick, Backtick>>

\* what safeJsonParse does: the claim's result for every text that has no
\* code fence inside its JSON
ParsedValueUnlessFenceInside ==
    (pc = "parsed" /\ NoFenceInside(call.jsonString)) =>
        /\ ~ret.threw
        /\ ret.value = (IF JSONParse(InnerJson(call.jsonString)).ok
                        THEN JSONParse(InnerJson(call.jsonString)).v
                        ELSE JNull)


(***************************************************************************)
(* Specification of LLMRecommendationSchema.safeParse: the argument is any *)
(* parsed JSON value, an object with or without the three members or not   *)
(* an object.                                                              *)
(***************************************************************************)

Ints(ns) == JArr([i \in 1..Len(ns) |-> JInt(ns[i])])

RecommendedIds ==
    { Undefined, JNull, JStr(Chars("1")), Ints(<<>>), Ints(<<1, 2>>), Ints(<<1, 2, 3, 4, 5>>),
      Ints(<<1, 2, 3, 4, 5, 6>>), Ints(<<0>>), Ints(<<1, -1>>), JArr(<<JNum(3, 2)>>),
      JArr(<<JInt(1), JStr(Chars("2"))>>) }

Reasonings ==
    { Undefined, JInt(10), JStr(<<>>), JStr(Chars("Good")), JStr(Xs(MinReasoningLength - 1)),
      JStr(Xs(MinReasoningLength)), JStr(Chars("A relaxed beach stay within your budget.")) }

MatchedTags ==
    { Undefined, JNull, JStr(Chars("beach")), JArr(<<>>),
      JArr(<<JStr(Chars("beach")), JStr(Chars("surfing"))>>), JArr(<<JStr(Chars("beach")), JInt(1)>>) }

\* the object with the members that are not undefined
Recommendation(ids, reasoning, tags) ==
    LET members == SelectSeq(<< <<Chars("experience_ids"), ids>>,
                                <<Chars("reasoning"), reasoning>>,
                                <<Chars("matched_tags"), tags>> >>,
                             LAMBDA m : m[2].t # "undefined")
    IN  JObj([i \in 1..Len(members) |-> members[i][1]],
             [i \in 1..Len(members) |-> members[i][2]])

InitRecoSchema ==
    /\ pc = "check"
    /\ call \in {[value |-> Recommendation(i, r, t)] :
                    i \in RecommendedIds, r \in Reasonings, t \in MatchedTags}
                \cup {[value |-> v] : v \in {JNull, JInt(1), JStr(Chars("[1, 2]")), Ints(<<1, 2>>)}}
    /\ ret = NoValue
    /\ NoAI
    /\ NoPage

\* LLMRecommendationSchema.safeParse(value)
SafeParseRecommendation ==
    /\ pc = "check"
    /\ ret' = [success |-> LLMRecommendationSchema(call.value)]
    /\ pc' = "checked"
    /\ UNCHANGED <<call, env, clients, sent, outcome, page, requests, timer>>

NextRecoSchema == SafeParseRecommendation

SpecRecoSchema == InitRecoSchema /\ [][NextRecoSchema]_vars

\* C13: LLMRecommendationSchema accepts a value exactly when experience_ids is
\* a list of 0 to 5 positive integers, reasoning a text of 10 characters or
\* more and matched_tags absent or a list of strings
C13_AcceptsExactlyRecommendations ==
    pc = "checked" =>
        (ret.success <=>
            /\ call.value.t = "object"
            /\ LET ids == Get(call.value, Chars("experience_ids"))
                   reasoning == Get(call.value, Chars("reasoning"))
                   tags == Get(call.value, Chars("matched_tags"))
               IN  /\ ids.t = "array"
                   /\ Len(ids.a) \in 0..5
                   /\ \A i \in 1..Len(ids.a) :
                        /\ ids.a[i].t = "number"
                        /\ ids.a[i].n % ids.a[i].d = 0
                        /\ ids.a[i].n \div ids.a[i].d >= 1
                   /\ reasoning.t = "string"
                   /\ Len(reasoning.s) >= 10
                   /\ \/ tags.t = "undefined"
                      \/ tags.t = "array" /\ \A i \in 1..Len(tags.a) : tags.a[i].t = "string")

\* six IDs with a good reasoning are rejected
C13_Witness ==
    /\ pc = "checked"
    /\ call.value = Recommendation(Ints(<<1, 2, 3, 4, 5, 6>>),
                        JStr(Chars("A relaxed beach stay within your budget.")),
                        JArr(<<JStr(Chars("beach")), JStr(Chars("surfing"))>>))
    /\ ~ret.success

\* [1, 2] with a reasoning of 10 characters and tags is accepted, "Good" is not
RecommendationExamples ==
    pc = "checked" =>
        /\ call.value = Recommendation(Ints(<<1, 2>>), JStr(Xs(10)),
                            JArr(<<JStr(Chars("beach")), JStr(Chars("surfing"))>>))
              => ret.success
        /\ (call.value.t = "object"
                /\ Get(call.value, Chars("reasoning")) = JStr(Chars("Good"))) => ~ret.success

(***************************************************************************)
(* The Home page (src/app/page.tsx and its later variant): the useState    *)
(* cells, the handlers and the POSTs in flight.  In the first variant the  *)
(* only submit button is disabled while loading or while the query is      *)
(* short and the text input is disabled while loading; in the later        *)
(* variant the example-query chips of the hero section are buttons inside  *)
(* the form with no type, that is, submit buttons that are never disabled. *)
(***************************************************************************)

Variants == {"page.tsx", "part_001"}

\* getPriceRange(): the least and the greatest price of the catalog
getPriceRange(experiences) ==
    [ min |-> CHOOSE x \in {experiences[i].price : i \in 1..Len(experiences)} :
                \A i \in 1..Len(experiences) : x <= experiences[i].price,
      max |-> CHOOSE x \in {experiences[i].price : i \in 1..Len(experiences)} :
                \A i \in 1..Len(experiences) : x >= experiences[i].price ]

\* the catalog the page is built over
PageCatalog ==
    << CHOOSE e \in SampleExperiences : e.id = 1, CHOOSE e \in SampleExperiences : e.id = 2,
       CHOOSE e \in SampleExperiences : e.id = 3, CHOOSE e \in SampleExperiences : e.id = 4 >>

\* getAllTags(): the tags of the catalog, sorted
availableTags ==
    <<Chars("beach"), Chars("climbing"), Chars("culture"), Chars("history"), Chars("surfing")>>

\* the tags the user clicks, the texts the user types and the chips of the
\* hero section; the price slider is left where the page and clear-filters
\* put it
ClickedTags == {availableTags[1], availableTags[2]}
TypedQueries == {<<>>, Chars(" ab "), Chars("surf trip")}
Suggestions == {Chars("Peaceful beach")}

\* the useState initial values
InitialPage(variant) ==
    [ variant      |-> variant,
      query        |-> <<>>,
      minPrice     |-> IF variant = "page.tsx" THEN 0 ELSE getPriceRange(PageCatalog).min,
      maxPrice     |-> IF variant = "page.tsx" THEN 300 ELSE getPriceRange(PageCatalog).max,
      selectedTags |-> <<>>,
      results      |-> None,
      loading      |-> FALSE,
      error        |-> None ]

\* an updater that only ever adds the tag
toggleTag_AddOnly(prev, tag) == Append(prev, tag)

\* an updater that looks for the tag at the head of the list only
toggleTag_Unchecked(prev, tag) ==
    IF Includes(prev, tag) /\ prev[1] # tag THEN Append(prev, tag) ELSE
    IF Includes(prev, tag) THEN Tail(prev) ELSE Append(prev, tag)

\* the updater handleTagToggle passes to setSelectedTags
toggleTag(prev, tag) ==
    IF Includes(prev, tag)
    THEN SelectSeq(prev, LAMBDA t : t # tag)
    ELSE Append(prev, tag)

\* hasActiveFilters of the filter panel the variant renders: SearchFilters
\* in the first, FilterSection in the later one
hasActiveFilters(p) ==
    IF p.variant = "page.tsx"
    THEN \/ p.minPrice > getPriceRange(PageCatalog).min
         \/ p.maxPrice < getPriceRange(PageCatalog).max
         \/ Len(p.selectedTags) > 0
    ELSE \/ Len(p.selectedTags) > 0
         \/ p.minPrice # getPriceRange(PageCatalog).min
         \/ p.maxPrice # getPriceRange(PageCatalog).max

\* a handler that empties the tag selection only
handleClearFilters_TagsOnly(p) == [p EXCEPT !.selectedTags = <<>>]

\* the page state after handleClearFilters
handleClearFilters(p) ==
    [p EXCEPT !.minPrice = getPriceRange(PageCatalog).min,
              !.maxPrice = getPriceRange(PageCatalog).max,
              !.selectedTags = <<>>]

\* the body handleSearch posts
SearchBody(p) ==
    [ query   |-> p.query,
      filters |-> [ minPrice     |-> p.minPrice,
                    maxPrice     |-> p.maxPrice,
                    selectedTags |-> IF Len(p.selectedTags) > 0
                                     THEN Some(p.selectedTags) ELSE None ] ]

\* the shortest trimmed query handleSearch posts
MinTrimmedQuery == 3

\* handleSearch up to its first await, for the page state p it was rendered
\* with: the page state and the requests after it
handleSearch(p, reqs) ==
    IF Len(Trim(p.query)) < MinTrimmedQuery
    THEN [ page     |-> [p EXCEPT !.error = Some(Chars("Please enter at least 3 characters"))],
           requests |-> reqs ]
    ELSE [ page     |-> [p EXCEPT !.loading = TRUE, !.error = None, !.results = None],
           requests |-> Append(reqs, [body |-> SearchBody(p), state |-> "inflight"]) ]

\* what a POST settles with: a success status and a body, a failure status
\* and a body with or without an error member, a body that is no JSON, or
\* no response at all
MaxSearches == 2

\* the body of the success response to the n-th POST
ResponseTo(n) == [to |-> n, recommendations |-> <<1, 3>>]

Settlements(n) ==
    { [kind |-> "ok", data |-> ResponseTo(n)] }
    \cup { [kind |-> "status", error |-> e] : e \in {None, Some(Chars("Invalid request"))} }
    \cup { [kind |-> "rejected", message |-> Chars("Failed to fetch")],
           [kind |-> "rejected", message |-> Chars("Unexpected token < in JSON at position 0")] }

\* a handler that resets loading at the end of its try block only
settle_NoFinally(p, settlement) ==
    CASE settlement.kind = "ok" ->
           [p EXCEPT !.results = Some(settlement.data), !.loading = FALSE]
      [] settlement.kind = "status" ->
           [p EXCEPT !.error = IF settlement.error = None
                               THEN Some(Chars("Failed to get recommendations"))
                               ELSE settlement.error]
      [] OTHER -> [p EXCEPT !.error = Some(settlement.message)]

\* handleSearch after its awaits: try, catch and finally
settle(p, settlement) ==
    LET tried ==
          CASE settlement.kind = "ok" -> [p EXCEPT !.results = Some(settlement.data)]
            [] settlement.kind = "status" ->
                 [p EXCEPT !.error = IF settlement.error = None \/ settlement.error = Some(<<>>)
                                     THEN Some(Chars("Failed to get recommendations"))
                                     ELSE settlement.error]
            [] OTHER -> [p EXCEPT !.error = Some(settlement.message)]
    IN  [tried EXCEPT !.loading = FALSE]

InitPage ==
    /\ pc = "page"
    /\ page \in {InitialPage(v) : v \in Variants}
    /\ requests = <<>>
    /\ timer = NoValue
    /\ call = NoValue
    /\ ret = NoValue
    /\ NoAI

\* the user edits the query
SetQuery ==
    /\ page.variant = "page.tsx" => ~page.loading
    /\ \E q \in TypedQueries : page' = [page EXCEPT !.query = q]
    /\ UNCHANGED <<pc, call, ret, env, clients, sent, outcome, requests, timer>>

HandleTagToggle(tag) ==
    /\ page' = [page EXCEPT !.selectedTags = toggleTag(page.selectedTags, tag)]
    /\ UNCHANGED <<pc, call, ret, env, clients, sent, outcome, requests, timer>>

\* the 'Clear all' button, rendered while the panel has an active filter
HandleClearFilters ==
    /\ hasActiveFilters(page)
    /\ page' = handleClearFilters(page)
    /\ UNCHANGED <<pc, call, ret, env, clients, sent, outcome, requests, timer>>

\* the user presses the search button, which is enabled
SubmitSearch ==
    /\ ~page.loading
    /\ Len(Trim(page.query)) >= MinTrimmedQuery
    /\ Len(requests) < MaxSearches
    /\ page' = handleSearch(page, requests).page
    /\ requests' = handleSearch(page, requests).requests
    /\ UNCHANGED <<pc, call, ret, env, clients, sent, outcome, timer>>

\* the user presses an example-query chip of the later variant: its onClick
\* sets the query, and the button, a submit button, submits the form
ClickSuggestion ==
    /\ page.variant = "part_001"
    /\ Len(requests) < MaxSearches
    /\ \E s \in Suggestions :
        /\ page' = handleSearch([page EXCEPT !.query = s], requests).page
        /\ requests' = handleSearch([page EXCEPT !.query = s], requests).requests
    /\ UNCHANGED <<pc, call, ret, env, clients, sent, outcome, timer>>

\* the n-th POST settles and its handleSearch runs to its end
Settles(n, settlement) ==
    /\ requests[n].state = "inflight"
    /\ page' = settle(page, settlement)
    /\ requests' = [requests EXCEPT ![n] = [state |-> "settled", kind |-> settlement.kind]]
    /\ UNCHANGED <<pc, call, ret, env, clients, sent, outcome, timer>>

\* a POST settles, in any order
Settle ==
    \E n \in 1..Len(requests) : \E settlement \in Settlements(n) : Settles(n, settlement)

NextPage ==
    \/ SetQuery
    \/ \E tag \in ClickedTags : HandleTagToggle(tag)
    \/ HandleClearFilters
    \/ SubmitSearch
    \/ ClickSuggestion
    \/ Settle

SpecPage == InitPage /\ [][NextPage]_vars

\* the search form alone, the filters left as the page load put them, and
\* every fetch settles: while a POST is in flight one of them settles
NextSearch == SetQuery \/ SubmitSearch \/ ClickSuggestion \/ Settle

SpecSearch == InitPage /\ [][NextSearch]_vars

FairSearch == SpecSearch /\ WF_vars(Settle)

\* the tags of a selection
TagsOf(selection) == {selection[i] : i \in 1..Len(selection)}

\* C15 as stated: a toggle adds the tag when absent and removes it when
\* present, and a second toggle of the same tag right after restores the
\* original selection
C15_ToggleTwiceRestores ==
    [][\A tag \in ClickedTags : HandleTagToggle(tag) =>
        /\ (tag \in TagsOf(page'.selectedTags)) <=> (tag \notin TagsOf(page.selectedTags))
        /\ toggleTag(page'.selectedTags, tag) = page.selectedTags]_vars

\* C15 amended: a toggle adds the tag when absent and removes it when present,
\* leaving the other tags as they are, and a second toggle of the same tag
\* right after restores the original set of selected tags (a tag that was
\* selected comes back at the end of the list)
C15_ToggleTwiceRestoresSet ==
    [][\A tag \in ClickedTags : HandleTagToggle(tag) =>
        /\ (tag \in TagsOf(page'.selectedTags)) <=> (tag \notin TagsOf(page.selectedTags))
        /\ TagsOf(page'.selectedTags) \ {tag} = TagsOf(page.selectedTags) \ {tag}
        /\ TagsOf(toggleTag(page'.selectedTags, tag)) = TagsOf(page.selectedTags)]_vars

\* two tags are selected, the first of the catalog after the second: the
\* order a toggle of "beach" off and on again leaves
C15_Witness ==
    /\ pc = "page"
    /\ page.selectedTags = <<Chars("climbing"), Chars("beach")>>

(***************************************************************************)
(* debounce(func, wait): the closure variable timeout, the timeouts the    *)
(* host has scheduled, the clock and the log of the calls of the wrapper   *)
(* and of func.  A timeout runs when its delay has passed, or later.       *)
(***************************************************************************)

MaxTime == 4
MaxCalls == 3
Waits == {1, 2}
DebouncedArgs == {"a", "b"}

\* a host that cancels nothing
clearTimeout_Ignored(scheduled, id) == scheduled

\* clearTimeout(id)
clearTimeout(scheduled, id) == {t \in scheduled : t.id # id}

InitDebounce ==
    /\ pc = "debounce"
    /\ timer \in {[ wait |-> w, now |-> 0, timeout |-> None, scheduled |-> {},
                    nextId |-> 1, log |-> <<>> ] : w \in Waits}
    /\ page = NoValue
    /\ requests = <<>>
    /\ call = NoValue
    /\ ret = NoValue
    /\ NoAI

\* executedFunction(...args)
ExecutedFunction ==
    /\ timer.nextId <= MaxCalls
    /\ timer.now + timer.wait <= MaxTime
    /\ \E args \in DebouncedArgs :
        timer' = [timer EXCEPT
            !.scheduled = (IF timer.timeout # None
                           THEN clearTimeout(timer.scheduled, timer.timeout[1])
                           ELSE timer.scheduled)
                          \cup {[id |-> timer.nextId, due |-> timer.now + timer.wait,
                                 args |-> args]},
            !.timeout = Some(timer.nextId),
            !.nextId = timer.nextId + 1,
            !.log = Append(timer.log, [kind |-> "call", at |-> timer.now, args |-> args])]
    /\ UNCHANGED <<pc, call, ret, env, clients, sent, outcome, page, requests>>

\* a scheduled timeout runs: later()
Later ==
    /\ \E t \in timer.scheduled :
        /\ t.due <= timer.now
        /\ timer' = [timer EXCEPT
              !.scheduled = timer.scheduled \ {t},
              !.timeout = None,
              !.log = Append(timer.log, [kind |-> "func", at |-> timer.now, args |-> t.args])]
    /\ UNCHANGED <<pc, call, ret, env, clients, sent, outcome, page, requests>>

\* a millisecond passes
Tick ==
    /\ timer.now < MaxTime
    /\ timer' = [timer EXCEPT !.now = timer.now + 1]
    /\ UNCHANGED <<pc, call, ret, env, clients, sent, outcome, page, requests>>

NextDebounce == ExecutedFunction \/ Later \/ Tick

SpecDebounce == InitDebounce /\ [][NextDebounce]_vars

\* the host runs every timeout that is due, and time goes on
FairDebounce == SpecDebounce /\ WF_vars(Later) /\ WF_vars(Tick)

\* the place in the log of the last call of the wrapper before place j
LastCallBefore(j) ==
    CHOOSE i \in 0..(j - 1) :
        /\ i = 0 \/ timer.log[i].kind = "call"
        /\ \A k \in (i + 1)..(j - 1) : timer.log[k].kind # "call"

\* func runs only wait after the last call of the wrapper, with the arguments
\* of that call, and once for it; no call that another call follows within
\* wait gets func run
DebouncedOnce ==
    /\ \A j \in 1..Len(timer.log) : timer.log[j].kind = "func" =>
          /\ LastCallBefore(j) # 0
          /\ timer.log[j].args = timer.log[LastCallBefore(j)].args
          /\ timer.log[j].at - timer.log[LastCallBefore(j)].at >= timer.wait
          /\ \A k \in (LastCallBefore(j) + 1)..(j - 1) : timer.log[k].kind # "func"
    /\ (timer.scheduled = {} /\ timer.log # <<>>) =>
          timer.log[Len(timer.log)].kind = "func"

\* C16: func is invoked only once wait has passed with no new call of the
\* wrapper, each new call cancels the pending one, and a burst of calls ends
\* in exactly one invocation of func, with the arguments of the last call
C16_DebounceOncePerBurst ==
    /\ []DebouncedOnce
    /\ <>[](timer.scheduled = {})

\* three calls, each within wait of the one before, then func once with the
\* arguments of the third
C16_Witness ==
    /\ pc = "debounce"
    /\ timer.wait = 2
    /\ Len(timer.log) = 4
    /\ timer.log[1] = [kind |-> "call", at |-> 0, args |-> "a"]
    /\ timer.log[2] = [kind |-> "call", at |-> 1, args |-> "b"]
    /\ timer.log[3] = [kind |-> "call", at |-> 2, args |-> "a"]
    /\ timer.log[4] = [kind |-> "func", at |-> 4, args |-> "a"]

(***************************************************************************)
(* validateEnvironment (safety.ts): the key is any concatenation of at     *)
(* most MaxKeyParts fragments, or is not set.                              *)
(***************************************************************************)

\* a check that takes the key format for a requirement
validateEnvironment_FormatRequired(e) ==
    IF MissingApiKey(e) \/ ~StartsWith(e.GEMINI_API_KEY[1], Chars("AIza"))
    THEN [ threw   |-> TRUE,
           message |-> Chars("Missing required environment variables: GEMINI_API_KEY\n")
                         \o Chars("Please check your .env.local file"),
           warned  |-> FALSE ]
    ELSE [threw |-> FALSE, message |-> <<>>, warned |-> FALSE]

\* validateEnvironment(): what it throws, and whether it warned on the console
validateEnvironment(e) ==
    IF MissingApiKey(e)
    THEN [ threw   |-> TRUE,
           message |-> Chars("Missing required environment variables: GEMINI_API_KEY\n")
                         \o Chars("Please check your .env.local file"),
           warned  |-> FALSE ]
    ELSE [ threw   |-> FALSE,
           message |-> <<>>,
           warned  |-> ~StartsWith(e.GEMINI_API_KEY[1], Chars("AIza")) ]

MaxKeyParts == 3

KeyParts == {Chars("AIza"), Chars("AI"), Chars("za"), Chars("Sy"), Chars(" "), Chars("sk-")}

RECURSIVE KeysOf(_)
KeysOf(n) ==
    IF n = 0 THEN {<<>>}
    ELSE KeysOf(n - 1) \cup {k \o part : k \in KeysOf(n - 1), part \in KeyParts}

InitEnv ==
    /\ pc = "startup"
    /\ env \in {[GEMINI_API_KEY |-> k] : k \in {None} \cup {Some(key) : key \in KeysOf(MaxKeyParts)}}
    /\ call = NoValue
    /\ ret = NoValue
    /\ clients = 0
    /\ sent = <<>>
    /\ outcome = [kind |-> "none"]
    /\ NoPage

ValidateEnvironment ==
    /\ pc = "startup"
    /\ ret' = validateEnvironment(env)
    /\ pc' = "validated"
    /\ UNCHANGED <<call, env, clients, sent, outcome, page, requests, timer>>

NextEnv == ValidateEnvironment

SpecEnv == InitEnv /\ [][NextEnv]_vars

\* C18: validateEnvironment throws exactly when GEMINI_API_KEY is not set or
\* is empty; a key that is set and does not start with "AIza" gets a warning
\* and no failure
C18_FatalOnlyWhenKeyMissing ==
    pc = "validated" =>
        /\ ret.threw <=> (env.GEMINI_API_KEY = None \/ env.GEMINI_API_KEY = Some(<<>>))
        /\ (env.GEMINI_API_KEY # None /\ env.GEMINI_API_KEY # Some(<<>>)
              /\ (Len(env.GEMINI_API_KEY[1]) < 4
                    \/ SubSeq(env.GEMINI_API_KEY[1], 1, 4) # <<"A", "I", "z", "a">>))
            => (ret.warned /\ ~ret.threw)

\* the key "sk-AIza" is set: a warning, no failure
C18_Witness ==
    /\ pc = "validated"
    /\ env.GEMINI_API_KEY = Some(Chars("sk-AIza"))
    /\ ret.warned
    /\ ~ret.threw

(***************************************************************************)
(* POST /api/recommend.  The steps of the handler are those of the        *)
(* endpoint's description (check the environment, validate the body,       *)
(* filter the catalog, answer at once when nothing is left, else call      *)
(* getRecommendations and map its IDs to records), around                  *)
(* validateEnvironment, SearchRequestSchema, filterExperiences and         *)
(* getRecommendations of the library.                                      *)
(***************************************************************************)

\* filters.minPrice, filters.maxPrice and filters.selectedTags of a valid body
FiltersOf(body) ==
    LET filters == Get(body, Chars("filters"))
        member(name) == IF filters.t = "undefined" THEN Undefined ELSE Get(filters, Chars(name))
    IN  [ minPrice     |-> IF member("minPrice").t = "undefined" THEN None
                           ELSE Some(NumberOf(member("minPrice"))),
          maxPrice     |-> IF member("maxPrice").t = "undefined" THEN None
                           ELSE Some(NumberOf(member("maxPrice"))),
          selectedTags |-> IF member("selectedTags").t = "undefined" THEN None
                           ELSE Some(StringsOf(member("selectedTags"))) ]

\* the records of the full catalog with the IDs returned, in catalog order
RecordsOf(ids, catalog) == SelectSeq(catalog, LAMBDA exp : Includes(ids, exp.id))

Response(status, body) == [status |-> status, body |-> body]

\* 200 with the recommendation mapped to records
Recommended(recommendation, catalog) ==
    Response(200, [ recommendations |-> RecordsOf(recommendation.experience_ids, catalog),
                    reasoning       |-> recommendation.reasoning,
                    matchedTags     |-> recommendation.matched_tags[1] ])

\* the error mapping of the route
ErrorResponse(message) ==
    IF StrIncludes(message, Chars("API key")) \/ StrIncludes(message, Chars("GEMINI_API_KEY"))
    THEN Response(500, [error |-> Chars("Server configuration error")])
    ELSE IF StrIncludes(message, Chars("429")) \/ StrIncludes(message, Chars("quota"))
    THEN Response(429, [error |-> Chars("Rate limit exceeded")])
    ELSE Response(500, [error |-> Chars("Internal server error")])

\* what getRecommendations gave, as a response
Responded(result, catalog) ==
    IF result.threw THEN ErrorResponse(result.message) ELSE Recommended(result.value, catalog)

RouteBodies ==
    { RequestBody(q, f) :
        q \in {JStr(Chars("ab")), JStr(Chars("beach vacation"))},
        f \in { Undefined,
                Filters(<<"minPrice">>, <<JInt(-1)>>),
                Filters(<<"maxPrice">>, <<JInt(10)>>),
                Filters(<<"minPrice", "maxPrice">>, <<JInt(200), JInt(100)>>),
                Filters(<<"selectedTags">>, <<JArr(<<JStr(Chars("skiing"))>>)>>),
                Filters(<<"minPrice", "maxPrice", "selectedTags">>,
                        <<JInt(50), JInt(100), JArr(<<JStr(Chars("beach"))>>)>>),
                Filters(<<"maxPrice", "selectedTags">>,
                        <<JInt(100), JArr(<<JStr(Chars("climbing"))>>)>>) } }

InitRoute ==
    /\ pc = "listening"
    /\ env \in {[GEMINI_API_KEY |-> k] : k \in {None, Some(Chars("AIzaSyExample"))}}
    /\ call = NoValue
    /\ ret = NoValue
    /\ clients = 0
    /\ sent = <<>>
    /\ outcome = [kind |-> "none"]
    /\ NoPage

\* POST: the handler up to its response or to the await of the AI call
Post ==
    /\ pc = "listening"
    /\ \E body \in RouteBodies, catalog \in {PageCatalog} \cup Catalogs :
        LET filters == FiltersOf(body)
            filtered == filterExperiences(catalog, filters.minPrice, filters.maxPrice,
                                          filters.selectedTags)
            sanitizedQuery == sanitizeUserInput(Get(body, Chars("query")).s)
        IN  /\ call' = [body |-> body, catalog |-> catalog]
            /\ IF validateEnvironment(env).threw
               THEN /\ ret' = Response(500, [error |-> Chars("Server configuration error")])
                    /\ pc' = "responded"
                    /\ UNCHANGED <<clients, sent>>
               ELSE IF ~SearchRequestSchema(body)
               THEN /\ ret' = Response(400, [error |-> Chars("Invalid request format")])
                    /\ pc' = "responded"
                    /\ UNCHANGED <<clients, sent>>
               ELSE IF filtered = <<>>
               THEN /\ ret' = Response(200,
                        [ recommendations |-> <<>>,
                          reasoning |-> Chars("No experiences match your filters. Try adjusting your price range or tags."),
                          matchedTags |-> <<>> ])
                    /\ pc' = "responded"
                    /\ UNCHANGED <<clients, sent>>
               ELSE IF TooShort(sanitizedQuery)
               THEN /\ ret' = Recommended(
                        [ experience_ids |-> <<>>,
                          reasoning |-> Chars("Please provide a more detailed search query (at least 3 characters)."),
                          matched_tags |-> Some(<<>>) ], catalog)
                    /\ pc' = "responded"
                    /\ UNCHANGED <<clients, sent>>
               ELSE /\ clients' = clients + 1
                    /\ sent' = Append(sent, UserMessage(sanitizedQuery, filters))
                    /\ pc' = "awaiting"
                    /\ UNCHANGED ret
    /\ UNCHANGED <<env, outcome, page, requests, timer>>

\* the catalog getRecommendations was called with
FilteredCatalog ==
    filterExperiences(call.catalog, FiltersOf(call.body).minPrice,
                      FiltersOf(call.body).maxPrice, FiltersOf(call.body).selectedTags)

\* the AI call resolves, getRecommendations returns and the route responds
PostResolves ==
    /\ pc = "awaiting"
    /\ \E responseText \in AIResponses :
        /\ outcome' = [kind |-> "text", text |-> responseText]
        /\ ret' = Recommended(ProcessResponse(responseText, FilteredCatalog), call.catalog)
    /\ pc' = "responded"
    /\ UNCHANGED <<call, env, clients, sent, page, requests, timer>>

\* the AI call fails, getRecommendations returns or throws and the route responds
PostRejects ==
    /\ pc = "awaiting"
    /\ \E error \in SdkFailures :
        /\ outcome' = [kind |-> "error", error |-> error]
        /\ ret' = Responded(HandleError(error, FilteredCatalog), call.catalog)
    /\ pc' = "responded"
    /\ UNCHANGED <<call, env, clients, sent, page, requests, timer>>

NextRoute == Post \/ PostResolves \/ PostRejects

SpecRoute == InitRoute /\ [][NextRoute]_vars

\* the filters of the request leave out the record
ExcludedByFilters(exp, body) ==
    LET filters == Get(body, Chars("filters"))
        minPrice == Get(filters, Chars("minPrice"))
        maxPrice == Get(filters, Chars("maxPrice"))
        selectedTags == Get(filters, Chars("selectedTags"))
    IN  /\ filters.t = "object"
        /\ \/ minPrice.t = "number" /\ exp.price * minPrice.d < minPrice.n
           \/ maxPrice.t = "number" /\ exp.price * maxPrice.d > maxPrice.n
           \/ /\ selectedTags.t = "array"
              /\ Len(selectedTags.a) > 0
              /\ \A i \in 1..Len(selectedTags.a) : ~Includes(exp.tags, selectedTags.a[i].s)

\* C17: a valid POST, on a configured server, whose filters exclude every
\* record of the catalog is answered 200 with no recommendation and an
\* explanatory reasoning, and no AI client is created and no AI call made
C17_EmptyFilterNoAICall ==
    (/\ pc = "responded"
     /\ env.GEMINI_API_KEY \notin {None, Some(<<>>)}
     /\ SearchRequestSchema(call.body)
     /\ \A i \in 1..Len(call.catalog) : ExcludedByFilters(call.catalog[i], call.body))
    => /\ ret.status = 200
       /\ ret.body.recommendations = <<>>
       /\ Len(ret.body.reasoning) > 0
       /\ clients = 0
       /\ sent = <<>>
       /\ outcome.kind = "none"

\* the four records, none at 10 or less: 200, nothing recommended, no client
C17_Witness ==
    /\ pc = "responded"
    /\ call.catalog = PageCatalog
    /\ call.body = RequestBody(JStr(Chars("beach vacation")),
                               Filters(<<"maxPrice">>, <<JInt(10)>>))
    /\ ret.status = 200
    /\ ret.body.recommendations = <<>>
    /\ clients = 0

(***************************************************************************)
(* getExperienceById (inventory.ts): any dataset of at most MaxDataset raw *)
(* records, valid or not, and any id.                                      *)
(***************************************************************************)

\* a lookup that takes a missing record for an error
getExperienceById_Throwing(inventoryData, id) ==
    LET allExperiences == getAllExperiences(inventoryData)
    IN  IF allExperiences.threw THEN allExperiences
        ELSE IF \E i \in 1..Len(allExperiences.value) : allExperiences.value[i].id = id
        THEN Returned(Some(allExperiences.value[
                CHOOSE i \in 1..Len(allExperiences.value) :
                    /\ allExperiences.value[i].id = id
                    /\ \A j \in 1..(i - 1) : allExperiences.value[j].id # id]))
        ELSE Threw(Chars("Experience not found"))

\* getExperienceById(id) over the dataset inventoryData: what getAllExperiences
\* throws, or the result of find, a record or undefined
getExperienceById(inventoryData, id) ==
    LET allExperiences == getAllExperiences(inventoryData)
    IN  IF allExperiences.threw THEN allExperiences
        ELSE IF \E i \in 1..Len(allExperiences.value) : allExperiences.value[i].id = id
        THEN Returned(Some(allExperiences.value[
                CHOOSE i \in 1..Len(allExperiences.value) :
                    /\ allExperiences.value[i].id = id
                    /\ \A j \in 1..(i - 1) : allExperiences.value[j].id # id]))
        ELSE Returned(None)

\* the raw records, and one more with the id 1
LookupRecords ==
    RawRecords \cup {RawExperience(JInt(1), "Surf & Chill Retreat", JInt(80),
                                   <<JStr(Chars("beach"))>>)}

InitById ==
    /\ pc = "lookup"
    /\ call \in {[inventoryData |-> JArr(d), id |-> id] :
                    d \in SeqsUpTo(LookupRecords, MaxDataset), id \in {1, 2, HallucinatedId}}
    /\ ret = NoValue
    /\ NoAI
    /\ NoPage

GetExperienceById ==
    /\ pc = "lookup"
    /\ ret' = getExperienceById(call.inventoryData, call.id)
    /\ pc' = "found"
    /\ UNCHANGED <<call, env, clients, sent, outcome, page, requests, timer>>

NextById == GetExperienceById

SpecById == InitById /\ [][NextById]_vars

\* the places of the dataset whose record has the id asked for
PlacesOfId == {i \in 1..Len(call.inventoryData.a) :
                  Get(call.inventoryData.a[i], Chars("id")) = JInt(call.id)}

\* the first record of the dataset with the id asked for, or the absent value
FirstWithId ==
    IF PlacesOfId = {} THEN None
    ELSE Some(ExperienceOf(call.inventoryData.a[
            CHOOSE i \in PlacesOfId : \A j \in PlacesOfId : i <= j]))

\* C19 as stated: for every id and every state of the dataset getExperienceById
\* does not throw and returns the first record with that id, or the absent
\* value when there is none
C19_LookupNeverThrows ==
    pc = "found" => (~ret.threw /\ ret.value = FirstWithId)

\* C19 amended: for every id and every dataset that passes the validation of
\* the catalog getExperienceById does not throw and returns the first record
\* with that id, or the absent value; over a dataset that does not pass it
\* throws what the load throws
C19_LookupOverValidDataset ==
    pc = "found" =>
        IF \E i \in 1..Len(call.inventoryData.a) : InvalidRecord(call.inventoryData.a[i])
        THEN ret = Threw(Chars("Invalid inventory data structure"))
        ELSE ~ret.threw /\ ret.value = FirstWithId

\* two valid records with the id 1: the first is returned
C19_Witness ==
    /\ pc = "found"
    /\ call.id = 1
    /\ Len(call.inventoryData.a) = 2
    /\ Get(call.inventoryData.a[1], Chars("price")) = JInt(80)
    /\ Get(call.inventoryData.a[2], Chars("price")) = JInt(45)
    /\ Get(call.inventoryData.a[2], Chars("id")) = JInt(1)
    /\ ~ret.threw
    /\ ret.value # None
    /\ ret.value[1].price = 80

\* a POST of handleSearch has not settled yet
InFlight == \E n \in 1..Len(requests) : requests[n].state = "inflight"

\* C20: loading is true at every moment at which a POST issued by
\* handleSearch has not settled, also when handleSearch is invoked again
\* before an earlier request has settled
C20_LoadingWhileInFlight ==
    (pc = "page" /\ InFlight) => page.loading

\* what holds of the first variant, whose form cannot be submitted while a
\* request is in flight
LoadingWhileInFlightWithoutChips ==
    (pc = "page" /\ page.variant = "page.tsx" /\ InFlight) =>
        (page.loading /\ Cardinality({n \in 1..Len(requests) : requests[n].state = "inflight"}) = 1)


(***************************************************************************)
(* Two searches and the order of their responses.                          *)
(***************************************************************************)

\* the n-th POST has settled with a success status and a JSON body
SettledOk(n) == requests[n].state = "settled" /\ requests[n].kind = "ok"

\* C21: when handleSearch was invoked twice and both requests settled
\* successfully, in whichever order the responses arrived, the results the
\* page holds are the response to the later-submitted request
C21_LatestSearchWins ==
    (Len(requests) = 2 /\ SettledOk(1) /\ SettledOk(2)) =>
        page.results = Some(ResponseTo(2))

\* the same where the only submit button is disabled while loading
LatestSearchWinsWithoutChips ==
    page.variant = "page.tsx" => C21_LatestSearchWins


(***************************************************************************)
(* What the page holds after a request has settled.                        *)
(***************************************************************************)

\* the error message shown for a response with a failure status
ServerMessage(settlement) ==
    IF settlement.error = None
    THEN Chars("Failed to get recommendations")
    ELSE settlement.error[1]

\* the outcome of one settlement as C22 states it
SettleOutcome(n, settlement) ==
    Settles(n, settlement) =>
        /\ ~page'.loading
        /\ settlement.kind = "status" =>
              /\ page'.error = Some(ServerMessage(settlement))
              /\ page'.results = None
        /\ settlement.kind = "ok" =>
              /\ page'.results = Some(settlement.data)
              /\ page'.error = None

\* C22: when a search request settles with a failure status the page sets error
\* to the error member of the body, or to 'Failed to get recommendations' when
\* there is none, and leaves results null; when it settles with success the page
\* sets results to the response body and leaves error null; in both cases
\* loading becomes false
C22_SettleOutcome ==
    [][\A n \in 1..Len(requests) : \A settlement \in Settlements(n) :
            SettleOutcome(n, settlement)]_vars

\* the same where the only submit button is disabled while loading
SettleOutcomeWithoutChips ==
    [][page.variant = "page.tsx" =>
        \A n \in 1..Len(requests) : \A settlement \in Settlements(n) :
            SettleOutcome(n, settlement)]_vars


(***************************************************************************)
(* The loading flag from the submission of a search to its settlement.     *)
(***************************************************************************)

\* C23: every handleSearch invocation that passes the length guard sets
\* loading to true; when its fetch settles (success, failure status, network
\* failure or a body that is no JSON) loading becomes false again; and the
\* page is never loading once all issued requests have settled
C23_LoadingEnds ==
    /\ [][Len(requests') > Len(requests) => page'.loading]_vars
    /\ [](~InFlight => ~page.loading)
    /\ (page.loading ~> ~page.loading)

\* two searches have settled, the first with a body that is no JSON and the
\* second with a failure status, and the page is not loading
C23_Witness ==
    /\ Len(requests) = 2
    /\ requests[1].state = "settled" /\ requests[1].kind = "rejected"
    /\ requests[2].state = "settled" /\ requests[2].kind = "status"
    /\ page.error = Some(Chars("Invalid request"))
    /\ ~page.loading


(***************************************************************************)
(* The length guard of handleSearch against SearchRequestSchema: one       *)
(* submit event on the form, whatever the query, with or without the       *)
(* results of an earlier search on the page, and the server's validation   *)
(* of the body it posts.                                                   *)
(***************************************************************************)

\* the queries in the text input: around the two limits of the schema, bare
\* and with spaces before and after
GuardQueries ==
    { lead \o text \o trail :
        lead \in {<<>>, Chars(" "), Chars("  ")},
        text \in { <<>>, Chars("a"), Chars("ab"), Chars("abc"), Chars("beach vacation"),
                   Xs(MaxQueryLength - 2), Xs(MaxQueryLength), Xs(MaxQueryLength + 1) },
        trail \in {<<>>, Chars(" "), Chars("  ")} }

\* the value request.json() gives the route for the text JSON.stringify makes
\* of the body: a member that is undefined is left out
PostedJson(body) ==
    RequestBody(JStr(body.query),
        IF body.filters.selectedTags = None
        THEN Filters(<<"minPrice", "maxPrice">>,
                     <<JInt(body.filters.minPrice), JInt(body.filters.maxPrice)>>)
        ELSE Filters(<<"minPrice", "maxPrice", "selectedTags">>,
                     << JInt(body.filters.minPrice), JInt(body.filters.maxPrice),
                        JArr([i \in 1..Len(body.filters.selectedTags[1]) |->
                                JStr(body.filters.selectedTags[1][i])]) >>))

InitGuard ==
    /\ pc = "submit"
    /\ page \in { [InitialPage(v) EXCEPT !.query = q, !.selectedTags = tags,
                                         !.results = shown] :
                    v \in Variants, q \in GuardQueries,
                    tags \in {<<>>, <<availableTags[1]>>},
                    shown \in {None, Some(ResponseTo(1))} }
    /\ requests = <<>>
    /\ timer = NoValue
    /\ call = NoValue
    /\ ret = NoValue
    /\ NoAI

\* the form's submit event: handleSearch up to its first await, and the
\* route's SearchRequestSchema.safeParse of the body of that page state
HandleSearch ==
    /\ pc = "submit"
    /\ page' = handleSearch(page, requests).page
    /\ requests' = handleSearch(page, requests).requests
    /\ call' = [body |-> PostedJson(SearchBody(page))]
    /\ ret' = [success |-> SearchRequestSchema(PostedJson(SearchBody(page)))]
    /\ pc' = "submitted"
    /\ UNCHANGED <<env, clients, sent, outcome, timer>>

NextGuard == HandleSearch

SpecGuard == InitGuard /\ [][NextGuard]_vars

\* C24: the client-side query guard mirrors the server's query validation: for
\* every query handleSearch issues the POST exactly when SearchRequestSchema
\* accepts that query
C24_GuardMirrorsSchema ==
    pc = "submitted" => (Len(requests) = 1 <=> ret.success)

\* the same for the queries of at most 200 characters with no space before or
\* after
GuardMirrorsSchemaForPlainQueries ==
    (pc = "submitted" /\ Trim(page.query) = page.query
                      /\ Len(page.query) <= MaxQueryLength) =>
        (Len(requests) = 1 <=> ret.success)


(***************************************************************************)
(* The filter panel alone (SearchFilters in the first variant,             *)
(* FilterSection in the later one): tag buttons, the price sliders and     *)
(* the clear-filters button, with no search under way.                     *)
(***************************************************************************)

\* the tags the user clicks and the prices the user drags a thumb to
PanelTags == {availableTags[1], availableTags[2], availableTags[3]}
SliderStops == {55, 95}

\* the lower thumb: the first variant's Min slider calls setMinPrice, whatever
\* the maximum; the later variant's two-thumb slider calls onPriceRangeChange
\* with the upper thumb where it is, and keeps the thumbs in order
HandleMinPriceChange(price) ==
    /\ page.variant = "part_001" => price <= page.maxPrice
    /\ page' = [page EXCEPT !.minPrice = price]
    /\ UNCHANGED <<pc, call, ret, env, clients, sent, outcome, requests, timer>>

\* the upper thumb
HandleMaxPriceChange(price) ==
    /\ page.variant = "part_001" => price >= page.minPrice
    /\ page' = [page EXCEPT !.maxPrice = price]
    /\ UNCHANGED <<pc, call, ret, env, clients, sent, outcome, requests, timer>>

NextPanel ==
    \/ \E tag \in PanelTags : HandleTagToggle(tag)
    \/ \E price \in SliderStops : HandleMinPriceChange(price)
    \/ \E price \in SliderStops : HandleMaxPriceChange(price)
    \/ HandleClearFilters

SpecPanel == InitPage /\ [][NextPanel]_vars

(***************************************************************************)
(* The clear-filters action and what the filter panel reports after it.    *)
(***************************************************************************)

\* C25: the clear-filters action sets minPrice and maxPrice to the minimum and
\* the maximum of getPriceRange and selectedTags to the empty list, leaves
\* query, results, loading and error unchanged, and after it the filter panel
\* reports no active filter
C25_ClearFiltersResets ==
    [][HandleClearFilters =>
        /\ page'.minPrice = getPriceRange(PageCatalog).min
        /\ page'.maxPrice = getPriceRange(PageCatalog).max
        /\ page'.selectedTags = <<>>
        /\ page'.query = page.query
        /\ page'.results = page.results
        /\ page'.loading = page.loading
        /\ page'.error = page.error
        /\ ~hasActiveFilters(page')]_vars

\* the first variant, which starts at 0 and 300 and whose sliders stop short
\* of the catalog's maximum, holds the catalog's range and no tag: the filters
\* were cleared
C25_Witness ==
    /\ pc = "page"
    /\ page.variant = "page.tsx"
    /\ page.minPrice = getPriceRange(PageCatalog).min
    /\ page.maxPrice = getPriceRange(PageCatalog).max
    /\ page.selectedTags = <<>>


(***************************************************************************)
(* The filter state on page load.                                          *)
(***************************************************************************)

\* the page as the first render leaves it, before any event
Untouched == pc = "page" /\ requests = <<>> /\ page = InitialPage(page.variant)

\* C26: on page load, before any user interaction, minPrice and maxPrice are
\* the minimum and the maximum of getPriceRange and selectedTags is empty, in
\* every page variant, so that the initial filter state is the state
\* clear-filters produces
C26_InitialFiltersAreCatalogRange ==
    Untouched =>
        /\ page.minPrice = getPriceRange(PageCatalog).min
        /\ page.maxPrice = getPriceRange(PageCatalog).max
        /\ page.selectedTags = <<>>
        /\ page = handleClearFilters(page)

\* the same for the later variant alone
InitialFiltersOfLaterVariant ==
    page.variant = "part_001" => C26_InitialFiltersAreCatalogRange


(***************************************************************************)
(* The query text getRecommendations sends to the AI service.              *)
(***************************************************************************)

\* C27: whenever getRecommendations invokes the AI service, the sanitized
\* query it sends has at least 3 characters after leading and trailing
\* whitespace is trimmed
C27_SentQueryHasThreeCharacters ==
    sent # <<>> => Len(Trim(sanitizeUserInput(call.userQuery))) >= MinSanitizedLength

\* the same of the sanitized query as it is, untrimmed
SentQueryHasThreeCharactersUntrimmed ==
    sent # <<>> => Len(sanitizeUserInput(call.userQuery)) >= MinSanitizedLength


(***************************************************************************)
(* sanitizeUserInput applied to its own result.                            *)
(***************************************************************************)

\* no two whitespace characters in a row
NoWhitespaceRun(s) ==
    \A i \in 1..(Len(s) - 1) : ~(s[i] \in WhitespaceChars /\ s[i + 1] \in WhitespaceChars)

\* C28: sanitizeUserInput is idempotent, and its result is trimmed, has no run
\* of two or more whitespace characters and is at most 200 characters long
C28_SanitizeIdempotent ==
    pc = "sanitized" =>
        /\ sanitizeUserInput(ret) = ret
        /\ Trim(ret) = ret
        /\ NoWhitespaceRun(ret)
        /\ Len(ret) <= MaxSanitizedLength

\* the same for the inputs from which neither the truncation nor the denylist
\* removes anything
SanitizeIdempotentWithoutRemoval ==
    (pc = "sanitized"
        /\ ret = Trim(CollapseWhitespace(RemoveControlChars(call.input)))) =>
            /\ sanitizeUserInput(ret) = ret
            /\ Trim(ret) = ret
            /\ NoWhitespaceRun(ret)
            /\ Len(ret) <= MaxSanitizedLength

\* the length limit alone
SanitizedWithinLimit == pc = "sanitized" => Len(ret) <= MaxSanitizedLength


(***************************************************************************)
(* The tag selection as a list without repetition.                         *)
(***************************************************************************)

\* C29: in every reachable page state, after any sequence of tag toggles and
\* clear-filters actions, selectedTags contains no tag twice
C29_NoDuplicateTags ==
    \A i, j \in 1..Len(page.selectedTags) :
        page.selectedTags[i] = page.selectedTags[j] => i = j

\* after a clear-filters in the first variant, all three tags are selected,
\* the first tag of the catalog last
C29_Witness ==
    /\ pc = "page"
    /\ page.variant = "page.tsx"
    /\ page.maxPrice = getPriceRange(PageCatalog).max
    /\ Len(page.selectedTags) = Cardinality(PanelTags)
    /\ page.selectedTags[Len(page.selectedTags)] = availableTags[1]


(***************************************************************************)
(* The error message and the result set of the page.                       *)
(***************************************************************************)

\* C30: in every reachable page state, after any sequence of query edits,
\* submits and request completions, error and results are never both non-null
C30_ErrorOrResults ==
    ~(page.error # None /\ page.results # None)

\* the same where the only submit button is disabled while loading
ErrorOrResultsWithoutChips ==
    page.variant = "page.tsx" => ~(page.error # None /\ page.results # None)

====
